---------------------------- MODULE Spec2Model ----------------------------
(***************************************************************************)
(* Lumina "Body" firmware (firmware/src/main.cpp, primary definition,      *)
(* lines 1-1734): the line-oriented command dispatcher, the peer session,  *)
(* the amplifier enable line and the two audio tasks.                      *)
(*                                                                         *)
(* A command line is a sequence of one-character strings, so that the      *)
(* prefix matching, substring extraction and integer parsing of            *)
(* parseCommand are computed the way the firmware computes them.           *)
(***************************************************************************)
EXTENDS Integers, Sequences, FiniteSets, TLC

(***************************************************************************)
(* Bounds of the model                                                     *)
(***************************************************************************)
\* number of distinct network endpoints that send datagrams
NumPeers == 2
\* number of clock ticks followed by the specification that follows time
MaxTicks == 6
\* number of audio-out packets after which the capture task is no longer scheduled
MaxSeq == 2
\* the number of HTTP clients of the camera unit
NumClients == 2
\* how far the camera unit's millis() is followed, in steps of CamTickMs
MaxCamTicks == 2

(***************************************************************************)
(* Program constants                                                       *)
(***************************************************************************)
UDP_PORT == 5005
STATUS_SEND_INTERVAL == 500
LED_BRIGHTNESS == 80
\* long on the ESP32 is 32 bits: atol saturates at these values
LONG_MAX == 2147483647
LONG_MIN == (0 - 2147483647) - 1
\* a uint32_t is kept as its two 16-bit halves <<high, low>>
Half == 65536

(***************************************************************************)
(* Arduino String / stdlib helpers                                         *)
(***************************************************************************)
Digits == {"0", "1", "2", "3", "4", "5", "6", "7", "8", "9"}

DigitVal(c) ==
    CASE c = "0" -> 0 [] c = "1" -> 1 [] c = "2" -> 2 [] c = "3" -> 3
      [] c = "4" -> 4 [] c = "5" -> 5 [] c = "6" -> 6 [] c = "7" -> 7
      [] c = "8" -> 8 [] c = "9" -> 9

isspace(c) == c \in {" ", "\n", "\r", "\t"}

\* String::startsWith
startsWith(s, p) == Len(s) >= Len(p) /\ SubSeq(s, 1, Len(p)) = p

\* String::indexOf(ch): 0-based index of the first occurrence, -1 if none
indexOf(s, c) ==
    IF \E i \in 1..Len(s) : s[i] = c
    THEN (CHOOSE i \in 1..Len(s) : s[i] = c /\ \A j \in 1..(i - 1) : s[j] # c) - 1
    ELSE -1

\* String::lastIndexOf(ch)
lastIndexOf(s, c) ==
    IF \E i \in 1..Len(s) : s[i] = c
    THEN (CHOOSE i \in 1..Len(s) : s[i] = c /\ \A j \in (i + 1)..Len(s) : s[j] # c) - 1
    ELSE -1

\* String::substring(left, right): 0-based, right exclusive; swaps the
\* bounds when left > right, empty when left is past the end
substring(s, left, right) ==
    LET l == IF left > right THEN right ELSE left
        r0 == IF left > right THEN left ELSE right
        r == IF r0 > Len(s) THEN Len(s) ELSE r0
    IN IF l >= Len(s) THEN <<>> ELSE SubSeq(s, l + 1, r)

\* String::substring(from)
substringFrom(s, from) == substring(s, from, Len(s))

\* String::trim: strips leading and trailing whitespace
RECURSIVE trimLeft(_)
trimLeft(s) == IF s # <<>> /\ isspace(Head(s)) THEN trimLeft(Tail(s)) ELSE s

RECURSIVE trimRight(_)
trimRight(s) ==
    IF s # <<>> /\ isspace(s[Len(s)]) THEN trimRight(SubSeq(s, 1, Len(s) - 1)) ELSE s

trim(s) == trimRight(trimLeft(s))

\* String::toLowerCase, on the letters that occur in the inputs
lower(c) ==
    CASE c = "A" -> "a" [] c = "B" -> "b" [] c = "C" -> "c" [] c = "D" -> "d"
      [] c = "E" -> "e" [] c = "F" -> "f" [] c = "G" -> "g" [] c = "H" -> "h"
      [] c = "I" -> "i" [] c = "K" -> "k" [] c = "L" -> "l" [] c = "M" -> "m"
      [] c = "N" -> "n" [] c = "O" -> "o" [] c = "P" -> "p" [] c = "R" -> "r"
      [] c = "S" -> "s" [] c = "T" -> "t" [] c = "U" -> "u" [] c = "V" -> "v"
      [] c = "W" -> "w" [] c = "Y" -> "y"
      [] OTHER -> c

toLowerCase(s) == [i \in 1..Len(s) |-> lower(s[i])]

\* strtol digit loop: accumulates the magnitude; -1 once it has passed LONG_MAX
RECURSIVE parseDigits(_, _, _)
parseDigits(s, i, acc) ==
    IF i > Len(s) \/ s[i] \notin Digits THEN acc
    ELSE LET d == DigitVal(s[i])
         IN parseDigits(s, i + 1,
                        IF acc = -1 \/ acc > (LONG_MAX - d) \div 10 THEN -1
                        ELSE acc * 10 + d)

\* String::toInt = atol: optional whitespace, optional sign, leading digits;
\* 0 when there is no digit; saturates at LONG_MIN / LONG_MAX
toInt(s) ==
    LET t == trimLeft(s)
        neg == t # <<>> /\ Head(t) = "-"
        signed == t # <<>> /\ Head(t) \in {"-", "+"}
        mag == parseDigits(t, IF signed THEN 2 ELSE 1, 0)
    IN IF neg THEN (IF mag = -1 THEN LONG_MIN ELSE 0 - mag)
       ELSE (IF mag = -1 THEN LONG_MAX ELSE mag)

\* seq++ on a uint32_t: wraps from 2^32 - 1 to 0
Inc32(u) ==
    IF u[2] + 1 < Half THEN <<u[1], u[2] + 1>>
    ELSE <<(u[1] + 1) % Half, 0>>

\* Arduino constrain(x, a, b)
constrain(x, a, b) == IF x < a THEN a ELSE IF x > b THEN b ELSE x

\* Arduino map(x, in_min, in_max, out_min, out_max), C integer division
map(x, in_min, in_max, out_min, out_max) ==
    LET num == (x - in_min) * (out_max - out_min)
        den == in_max - in_min
        q == IF num >= 0 THEN num \div den ELSE 0 - ((0 - num) \div den)
    IN q + out_min

\* CRGB(r, g, b): each int argument is converted to uint8_t
CRGB(r, g, b) == <<r % 256, g % 256, b % 256>>

\* FastLED named colours used by the firmware
CRGB_White == <<255, 255, 255>>
CRGB_Red == <<255, 0, 0>>
CRGB_Green == <<0, 128, 0>>
CRGB_Blue == <<0, 0, 255>>
CRGB_Yellow == <<255, 255, 0>>
CRGB_Orange == <<255, 165, 0>>
CRGB_Purple == <<128, 0, 128>>
CRGB_DeepPink == <<255, 20, 147>>
CRGB_Cyan == <<0, 255, 255>>

(***************************************************************************)
(* Command literals                                                        *)
(***************************************************************************)
S_DISCOVER == <<"D", "I", "S", "C", "O", "V", "E", "R">>
S_PING == <<"P", "I", "N", "G">>
S_WIFI_RESET == <<"W", "I", "F", "I", "_", "R", "E", "S", "E", "T">>
S_RESET_POS == <<"R", "E", "S", "E", "T", "_", "P", "O", "S">>
S_F_TALK_START == <<"F", "_", "T", "A", "L", "K", "_", "S", "T", "A", "R", "T">>
S_F_TALK_STOP == <<"F", "_", "T", "A", "L", "K", "_", "S", "T", "O", "P">>
S_F_HAPPY == <<"F", "_", "H", "A", "P", "P", "Y">>
S_F_SLEEP == <<"F", "_", "S", "L", "E", "E", "P">>
S_F_LISTENING == <<"F", "_", "L", "I", "S", "T", "E", "N", "I", "N", "G">>
S_F_SAD == <<"F", "_", "S", "A", "D">>
S_F_LOVE == <<"F", "_", "L", "O", "V", "E">>
S_CHAT_START == <<"C", "H", "A", "T", "_", "S", "T", "A", "R", "T">>
S_CHAT_STOP == <<"C", "H", "A", "T", "_", "S", "T", "O", "P">>
S_MIC_TEST == <<"M", "I", "C", "_", "T", "E", "S", "T">>
S_AMP_STATUS == <<"A", "M", "P", "_", "S", "T", "A", "T", "U", "S">>
S_AUDIO_START == <<"A", "U", "D", "I", "O", "_", "S", "T", "A", "R", "T">>
S_AUDIO_STOP == <<"A", "U", "D", "I", "O", "_", "S", "T", "O", "P">>
S_SERVO_ENABLE == <<"S", "E", "R", "V", "O", "_", "E", "N", "A", "B", "L", "E">>
S_SERVO_DISABLE == <<"S", "E", "R", "V", "O", "_", "D", "I", "S", "A", "B", "L", "E">>
S_SERVO_STOP == <<"S", "E", "R", "V", "O", "_", "S", "T", "O", "P">>
S_STOP == <<"S", "T", "O", "P">>
S_PAN_LEFT == <<"P", "A", "N", "_", "L", "E", "F", "T">>
S_PAN_RIGHT == <<"P", "A", "N", "_", "R", "I", "G", "H", "T">>
S_TILT_UP == <<"T", "I", "L", "T", "_", "U", "P">>
S_TILT_DOWN == <<"T", "I", "L", "T", "_", "D", "O", "W", "N">>
S_SERVO_TEST == <<"S", "E", "R", "V", "O", "_", "T", "E", "S", "T">>
S_SERVO_STATUS == <<"S", "E", "R", "V", "O", "_", "S", "T", "A", "T", "U", "S">>
S_SERVO_HELP == <<"S", "E", "R", "V", "O", "_", "H", "E", "L", "P">>
S_TONE == <<"T", "O", "N", "E">>
S_SOUND_TEST == <<"S", "O", "U", "N", "D", "_", "T", "E", "S", "T">>
P_TEXT == <<"T", "E", "X", "T", ":">>
P_COLOR == <<"C", "O", "L", "O", "R", ":">>
P_SERVO_CAL == <<"S", "E", "R", "V", "O", "_", "C", "A", "L", ":">>
P_SERVO_CAL_PAN == <<"S", "E", "R", "V", "O", "_", "C", "A", "L", "_", "P", "A", "N", ":">>
P_SERVO_CAL_TILT == <<"S", "E", "R", "V", "O", "_", "C", "A", "L", "_", "T", "I", "L", "T", ":">>
P_SERVO_SPEED == <<"S", "E", "R", "V", "O", "_", "S", "P", "E", "E", "D", ":">>
P_SERVO_DURATION == <<"S", "E", "R", "V", "O", "_", "D", "U", "R", "A", "T", "I", "O", "N", ":">>
P_SERVO_PAN == <<"S", "E", "R", "V", "O", "_", "P", "A", "N", ":">>
P_SERVO_TILT == <<"S", "E", "R", "V", "O", "_", "T", "I", "L", "T", ":">>
N_red == <<"r", "e", "d">>
N_green == <<"g", "r", "e", "e", "n">>
N_blue == <<"b", "l", "u", "e">>
N_yellow == <<"y", "e", "l", "l", "o", "w">>
N_orange == <<"o", "r", "a", "n", "g", "e">>
N_purple == <<"p", "u", "r", "p", "l", "e">>
N_pink == <<"p", "i", "n", "k">>
N_cyan == <<"c", "y", "a", "n">>
N_white == <<"w", "h", "i", "t", "e">>
N_warm == <<"w", "a", "r", "m">>
N_cool == <<"c", "o", "o", "l">>

(***************************************************************************)
(* Command lines with numeric arguments, as a sender formats them          *)
(***************************************************************************)
DigitChar(d) ==
    CASE d = 0 -> "0" [] d = 1 -> "1" [] d = 2 -> "2" [] d = 3 -> "3"
      [] d = 4 -> "4" [] d = 5 -> "5" [] d = 6 -> "6" [] d = 7 -> "7"
      [] d = 8 -> "8" [] d = 9 -> "9"

RECURSIVE NatToStr(_)
NatToStr(n) ==
    IF n < 10 THEN <<DigitChar(n)>> ELSE NatToStr(n \div 10) \o <<DigitChar(n % 10)>>

IntToStr(n) == IF n < 0 THEN <<"-">> \o NatToStr(0 - n) ELSE NatToStr(n)

\* P<a>T<b>
PanTiltLine(a, b) == <<"P">> \o IntToStr(a) \o <<"T">> \o IntToStr(b)

\* <PREFIX><n>
ArgLine(prefix, n) == prefix \o IntToStr(n)

(***************************************************************************)
(* State                                                                   *)
(***************************************************************************)
VARIABLES
    dev,                  \* currentFace, chatMode, isTalking, isLocked, targetPan,
                          \* targetTilt, currentPan, currentTilt, currentColor,
                          \* currentBrightness
    srv,                  \* statics of parseCommand (moveDuration, moveSpeed,
                          \* neutralPan, neutralTilt, currentPanAngle,
                          \* currentTiltAngle) and the attachment of the two servos
    ampEn,                \* level of PIN_AMP_EN
    brainConnected,
    brainIP,
    audioStreamingActive,
    micTaskHandle,        \* "NULL" or "mic"
    speakerTaskHandle,    \* "NULL" or "spk"
    micDriver,            \* I2S_MIC_PORT driver installed
    spkDriver,            \* I2S_SPEAKER_PORT driver installed
    micPc,                \* position of micStreamTask, "none" when no such task
    spkPc,                \* position of speakerPlaybackTask, "none" when no such task
    firstPacketReceived,  \* local of speakerPlaybackTask
    seq,                  \* static uint32_t seq of micStreamTask
    loopPc,               \* position of the control loop
    wasChat,              \* local of playTone
    lastCmd,              \* the line most recently given to parseCommand
    prevCmd,              \* the line given to parseCommand before that one, in the
                          \* specifications that record it
    twice,                \* in the specification that dispatches a line twice in a
                          \* row: how far the pair is, and the device state between
                          \* its two dispatches; in the specification of the tone:
                          \* the device state in which the last line was dispatched
    outbox,               \* datagrams sent on the control port by the last control-loop step
    servoLog,             \* servo operations made by the last call of parseCommand
    clk,                  \* millis(), the control loop's currentMillis and
                          \* lastStatusSendTime, the position of the loop pass and the
                          \* time at which the last heartbeat left
    audioOut,             \* the last audio-out packet of the current session
    spkIo,                \* the last audio-in datagram taken by the playback task:
                          \* its size, the bytes read into speakerBuffer, the
                          \* bytes given to i2s_write
    txLog,                \* the sequence numbers of the audio-out packets sent
                          \* since the last restart, and whether one was sent twice
    cam                   \* the camera unit: its globals, the position of its
                          \* web server task, the requests waiting for it, its
                          \* answers, its WiFi link and its clock

vars == <<dev, srv, ampEn, brainConnected, brainIP, audioStreamingActive,
          micTaskHandle, speakerTaskHandle, micDriver, spkDriver, micPc, spkPc,
          firstPacketReceived, seq, loopPc, wasChat, lastCmd, prevCmd, twice,
          outbox,
          servoLog, clk, audioOut, spkIo, txLog, cam>>

audioVars == <<audioStreamingActive, micTaskHandle, speakerTaskHandle, micDriver,
               spkDriver>>
taskVars == <<micPc, spkPc, firstPacketReceived, seq, audioOut>>
peerVars == <<brainConnected, brainIP>>
cmdVars == <<lastCmd, prevCmd, twice, servoLog>>

Peers == 1..NumPeers
\* IPAddress() before any datagram has been received
NoIP == 0
NoPacket == [to |-> NoIP, seq |-> <<-1, -1>>]

InitDev ==
    [currentFace |-> "FACE_SLEEP", chatMode |-> FALSE, isTalking |-> FALSE,
     isLocked |-> FALSE, targetPan |-> 90, targetTilt |-> 90, currentPan |-> 90,
     currentTilt |-> 90, currentColor |-> CRGB_White,
     currentBrightness |-> LED_BRIGHTNESS]

\* millis() and the control loop's timers at the end of setup(); beatAt and
\* beatStamp record millis() and currentMillis at the last heartbeat sent
InitClk ==
    [now |-> 0, currentMillis |-> 0, lastStatusSendTime |-> 0,
     lastTalkAnimTime |-> 0, pass |-> "top", beatAt |-> -1, beatStamp |-> -1]

\* camera unit: const unsigned long STREAM_TIMEOUT_MS, const int WIFI_MAX_FAILS
STREAM_TIMEOUT_MS == 10000
WIFI_MAX_FAILS == 6

Clients == 1..NumClients
NoClient == 0

\* the camera unit when setup() has returned: the globals at their
\* initialisers, WiFi connected, the web server task waiting for a request;
\* streamer is the client whose /stream request is being served, pending the
\* requests not yet taken up, answer and event what the last step answered
\* and did, delivered the time of the last frame sent, failed the length of
\* the current run of failed reconnect attempts
InitCam ==
    [stream_client_connected |-> FALSE, last_frame_time |-> 0, wifi_fail_count |-> 0,
     httpd |-> "idle", streamer |-> NoClient, pending |-> {},
     answer |-> <<NoClient, "">>, event |-> "boot", wifi |-> TRUE, cameraOk |-> TRUE,
     now |-> 0, delivered |-> 0, failed |-> 0]

I2S_BUFFER_SIZE == 128

\* sizeof(speakerBuffer): I2S_BUFFER_SIZE samples of int16_t
SpeakerBufferBytes == I2S_BUFFER_SIZE * 2

\* sizes of the datagrams that arrive on the audio-in port
PacketSizes == {1, SpeakerBufferBytes, SpeakerBufferBytes + 1}

\* WiFiUDP::read(buffer, len): the bytes copied, at most len and at most
\* what the datagram holds
udpRead(available, len) == IF available < len THEN available ELSE len

\* a read of the whole datagram, whatever its size
speakerRead_Whole(packetSize) == udpRead(packetSize, packetSize)

\* speakerPlaybackTask: the read into speakerBuffer
speakerRead(packetSize) ==
    udpRead(packetSize,
            IF packetSize < SpeakerBufferBytes THEN packetSize ELSE SpeakerBufferBytes)

\* no datagram taken yet; followed is set in the initial state of the
\* specification that follows the sizes of the datagrams
NoIo == [followed |-> FALSE, packetSize |-> 0, bytesRead |-> 0, bytes_written |-> 0]

\* nothing sent since the restart; the numbers are recorded only where the
\* initial state asks for it
NoTx == [followed |-> FALSE, seqs |-> {}, reused |-> FALSE]

\* the record after a restart
Forgotten(log) == [log EXCEPT !.seqs = {}, !.reused = FALSE]

\* the record after the dispatch of cmd: WIFI_RESET restarts the device
AfterCommand(log, cmd) ==
    IF log.seqs # {} /\ cmd = S_WIFI_RESET THEN Forgotten(log) ELSE log

InitSrv ==
    [moveDuration |-> 100, moveSpeed |-> 50, neutralPan |-> 1500,
     neutralTilt |-> 1500, currentPanAngle |-> 90, currentTiltAngle |-> 90,
     panAttached |-> FALSE, tiltAttached |-> FALSE]

\* the state in which setup() leaves the device, the capture task's counter apart
\* the device state that a command handler can leave behind
DeviceState ==
    [currentFace |-> dev.currentFace, chatMode |-> dev.chatMode,
     isTalking |-> dev.isTalking, isLocked |-> dev.isLocked,
     currentColor |-> dev.currentColor,
     currentBrightness |-> dev.currentBrightness,
     targetPan |-> dev.targetPan, targetTilt |-> dev.targetTilt,
     neutralPan |-> srv.neutralPan, neutralTilt |-> srv.neutralTilt,
     ampEn |-> ampEn, audioStreamingActive |-> audioStreamingActive]

\* no line is being dispatched twice in a row
NoPair == [ph |-> 0, st |-> <<>>]

Boot ==
    /\ dev = InitDev
    /\ srv = InitSrv
    /\ ampEn = FALSE
    /\ brainConnected = FALSE
    /\ brainIP = NoIP
    /\ audioStreamingActive = FALSE
    /\ micTaskHandle = "NULL"
    /\ speakerTaskHandle = "NULL"
    /\ micDriver = FALSE
    /\ spkDriver = FALSE
    /\ micPc = "none"
    /\ spkPc = "none"
    /\ firstPacketReceived = FALSE
    /\ loopPc = "idle"
    /\ wasChat = FALSE
    /\ lastCmd = <<>>
    /\ prevCmd = <<>>
    /\ twice = NoPair
    /\ outbox = <<>>
    /\ servoLog = <<>>
    /\ clk = InitClk
    /\ audioOut = NoPacket
    /\ cam = InitCam

\* the state after construction: static uint32_t seq = 0
Init == Boot /\ seq = <<0, 0>> /\ spkIo = NoIo /\ txLog = NoTx

\* ESP.restart(): every global and static is re-initialised, setup() runs again;
\* the clock is restarted by the caller
Restart ==
    /\ dev' = InitDev
    /\ srv' = InitSrv
    /\ ampEn' = FALSE
    /\ brainConnected' = FALSE
    /\ brainIP' = NoIP
    /\ audioStreamingActive' = FALSE
    /\ micTaskHandle' = "NULL"
    /\ speakerTaskHandle' = "NULL"
    /\ micDriver' = FALSE
    /\ spkDriver' = FALSE
    /\ micPc' = "none"
    /\ spkPc' = "none"
    /\ firstPacketReceived' = FALSE
    /\ seq' = <<0, 0>>
    /\ loopPc' = "idle"
    /\ wasChat' = FALSE
    /\ outbox' = <<>>
    /\ servoLog' = <<>>
    /\ audioOut' = NoPacket

(***************************************************************************)
(* parseCommand: the chain of tests, in the order of the source            *)
(***************************************************************************)
Verb(cmd) ==
    IF cmd = S_DISCOVER THEN "DISCOVER"
    ELSE IF cmd = S_PING THEN "PING"
    ELSE IF cmd = S_WIFI_RESET THEN "WIFI_RESET"
    ELSE IF startsWith(cmd, P_TEXT) THEN "TEXT"
    ELSE IF startsWith(cmd, <<"P">>) /\ indexOf(cmd, "T") > 0 THEN "PANTILT"
    ELSE IF cmd = S_RESET_POS THEN "RESET_POS"
    ELSE IF cmd = S_F_TALK_START THEN "F_TALK_START"
    ELSE IF cmd = S_F_TALK_STOP THEN "F_TALK_STOP"
    ELSE IF cmd = S_F_HAPPY THEN "F_HAPPY"
    ELSE IF cmd = S_F_SLEEP THEN "F_SLEEP"
    ELSE IF cmd = S_F_LISTENING THEN "F_LISTENING"
    ELSE IF cmd = S_F_SAD THEN "F_SAD"
    ELSE IF cmd = S_F_LOVE THEN "F_LOVE"
    ELSE IF startsWith(cmd, <<"L">>) THEN "L"
    ELSE IF startsWith(cmd, <<"B">>) THEN "B"
    ELSE IF startsWith(cmd, <<"C">>) /\ indexOf(cmd, ",") > 0 THEN "RGB"
    ELSE IF startsWith(cmd, P_COLOR) THEN "COLOR"
    ELSE IF cmd = S_CHAT_START THEN "CHAT_START"
    ELSE IF cmd = S_CHAT_STOP THEN "CHAT_STOP"
    ELSE IF startsWith(cmd, S_TONE) THEN "TONE"
    ELSE IF startsWith(cmd, S_SOUND_TEST) THEN "SOUND_TEST"
    ELSE IF cmd = S_MIC_TEST THEN "MIC_TEST"
    ELSE IF cmd = S_AMP_STATUS THEN "AMP_STATUS"
    ELSE IF cmd = S_AUDIO_START THEN "AUDIO_START"
    ELSE IF cmd = S_AUDIO_STOP THEN "AUDIO_STOP"
    ELSE IF startsWith(cmd, P_SERVO_CAL) THEN "SERVO_CAL"
    ELSE IF startsWith(cmd, P_SERVO_CAL_PAN) THEN "SERVO_CAL_PAN"
    ELSE IF startsWith(cmd, P_SERVO_CAL_TILT) THEN "SERVO_CAL_TILT"
    ELSE IF cmd = S_SERVO_ENABLE THEN "SERVO_ENABLE"
    ELSE IF cmd = S_SERVO_DISABLE THEN "SERVO_DISABLE"
    ELSE IF cmd = S_SERVO_STOP \/ cmd = S_STOP THEN "SERVO_STOP"
    ELSE IF startsWith(cmd, P_SERVO_SPEED) THEN "SERVO_SPEED"
    ELSE IF startsWith(cmd, P_SERVO_DURATION) THEN "SERVO_DURATION"
    ELSE IF cmd = S_PAN_LEFT THEN "PAN_LEFT"
    ELSE IF cmd = S_PAN_RIGHT THEN "PAN_RIGHT"
    ELSE IF cmd = S_TILT_UP THEN "TILT_UP"
    ELSE IF cmd = S_TILT_DOWN THEN "TILT_DOWN"
    ELSE IF cmd = S_SERVO_TEST THEN "SERVO_TEST"
    ELSE IF cmd = S_SERVO_STATUS THEN "SERVO_STATUS"
    ELSE IF startsWith(cmd, P_SERVO_PAN) THEN "SERVO_PAN"
    ELSE IF startsWith(cmd, P_SERVO_TILT) THEN "SERVO_TILT"
    ELSE IF cmd = S_SERVO_HELP THEN "SERVO_HELP"
    ELSE "NONE"

(***************************************************************************)
(* Handlers of parseCommand that run to completion without waiting.        *)
(* A handler maps the effect record e = [dev, srv, amp, out, log] at entry *)
(* (out and log empty) to the one at return.                               *)
(***************************************************************************)
\* sendStatus without the test of brainConnected
sendStatus_NoPeerTest(status, conn, ip) ==
    <<[to |-> ip, port |-> UDP_PORT, msg |-> status]>>

\* sendStatus: one datagram to the remembered peer, nothing when none is known
sendStatus(status, conn, ip) ==
    IF conn THEN <<[to |-> ip, port |-> UDP_PORT, msg |-> status]>> ELSE <<>>

ServoOp(servo, op, val) == [servo |-> servo, op |-> op, val |-> val]

Delay(ms) == ServoOp("-", "delay", ms)

hDiscover(e, conn, ip) == [e EXCEPT !.out = sendStatus("LUMINA_BODY", conn, ip)]

hPing(e, conn, ip) == [e EXCEPT !.out = sendStatus("PONG", conn, ip)]

\* P<a>T<b> with the limits of a positional build: pan 0..180, tilt 45..135
hPanTilt_WideLimits(e, cmd) ==
    LET tIndex == indexOf(cmd, "T")
        pan == toInt(substring(cmd, 1, tIndex))
        tilt == toInt(substringFrom(cmd, tIndex + 1))
    IN [e EXCEPT !.dev.targetPan = constrain(pan, 0, 180),
                 !.dev.targetTilt = constrain(tilt, 45, 135),
                 !.dev.isLocked = TRUE]

hPanTilt(e, cmd) ==
    LET tIndex == indexOf(cmd, "T")
        pan == toInt(substring(cmd, 1, tIndex))
        tilt == toInt(substringFrom(cmd, tIndex + 1))
    IN [e EXCEPT !.dev.targetPan = constrain(pan, 30, 150),
                 !.dev.targetTilt = constrain(tilt, 30, 150),
                 !.dev.isLocked = TRUE]

hResetPos(e) ==
    [e EXCEPT !.dev.currentPan = 90, !.dev.currentTilt = 90,
              !.dev.targetPan = 90, !.dev.targetTilt = 90]

hTalkStart(e) ==
    [e EXCEPT !.dev.isTalking = TRUE, !.dev.currentFace = "FACE_TALKING",
              !.amp = TRUE]

\* F_TALK_STOP that mutes the amplifier whatever the chat mode
hTalkStop_AlwaysMute(e) ==
    [e EXCEPT !.dev.isTalking = FALSE, !.dev.currentFace = "FACE_HAPPY",
              !.amp = FALSE]

hTalkStop(e) ==
    [e EXCEPT !.dev.isTalking = FALSE, !.dev.currentFace = "FACE_HAPPY",
              !.amp = IF ~e.dev.chatMode THEN FALSE ELSE e.amp]

hHappy(e) == [e EXCEPT !.dev.currentFace = "FACE_HAPPY", !.dev.isLocked = TRUE]

\* F_SLEEP that clears isTalking and leaves the face as it is
hSleep_KeepFace(e) ==
    [e EXCEPT !.dev.isLocked = FALSE,
              !.dev.isTalking = FALSE, !.dev.chatMode = FALSE,
              !.dev.currentColor = CRGB_White, !.amp = FALSE]

hSleep(e) ==
    [e EXCEPT !.dev.currentFace = "FACE_SLEEP", !.dev.isLocked = FALSE,
              !.dev.isTalking = FALSE, !.dev.chatMode = FALSE,
              !.dev.currentColor = CRGB_White, !.amp = FALSE]

hListening(e) ==
    [e EXCEPT !.dev.currentFace = "FACE_LISTENING", !.dev.currentColor = CRGB_Green]

hSad(e) == [e EXCEPT !.dev.currentFace = "FACE_SAD"]

hLove(e) ==
    [e EXCEPT !.dev.currentFace = "FACE_LOVE", !.dev.currentColor = CRGB_DeepPink]

\* L<n> that adds n to the brightness instead of setting it
hL_Relative(e, cmd) ==
    [e EXCEPT !.dev.currentBrightness =
                  constrain(e.dev.currentBrightness + toInt(substringFrom(cmd, 1)), 0, 255)]

\* L<n>: brightness from 0 to 255
hL(e, cmd) ==
    [e EXCEPT !.dev.currentBrightness = constrain(toInt(substringFrom(cmd, 1)), 0, 255)]

\* B<p> without the clamp of the percentage
hB_NoClamp(e, cmd) ==
    [e EXCEPT !.dev.currentBrightness =
                  map(toInt(substringFrom(cmd, 1)), 0, 100, 0, 255) % 256]

\* B<p>: brightness as a percentage; currentBrightness is a uint8_t
hB(e, cmd) ==
    [e EXCEPT !.dev.currentBrightness =
                  map(constrain(toInt(substringFrom(cmd, 1)), 0, 100), 0, 100, 0, 255) % 256]

hRGB(e, cmd) ==
    LET c1 == indexOf(cmd, ",")
        c2 == lastIndexOf(cmd, ",")
        r == toInt(substring(cmd, 1, c1))
        g == toInt(substring(cmd, c1 + 1, c2))
        b == toInt(substringFrom(cmd, c2 + 1))
    IN [e EXCEPT !.dev.currentColor = CRGB(r, g, b)]

\* the fixed colour table of COLOR:<name>; no entry: the colour is left as it is
hColor(e, cmd) ==
    LET colorName == toLowerCase(substringFrom(cmd, 6))
    IN [e EXCEPT !.dev.currentColor =
            IF colorName = N_red THEN CRGB_Red
            ELSE IF colorName = N_green THEN CRGB_Green
            ELSE IF colorName = N_blue THEN CRGB_Blue
            ELSE IF colorName = N_yellow THEN CRGB_Yellow
            ELSE IF colorName = N_orange THEN CRGB_Orange
            ELSE IF colorName = N_purple THEN CRGB_Purple
            ELSE IF colorName = N_pink THEN CRGB_DeepPink
            ELSE IF colorName = N_cyan THEN CRGB_Cyan
            ELSE IF colorName = N_white THEN CRGB_White
            ELSE IF colorName = N_warm THEN CRGB(255, 200, 100)
            ELSE IF colorName = N_cool THEN CRGB(200, 220, 255)
            ELSE e.dev.currentColor]

hChatStart(e, conn, ip) ==
    [e EXCEPT !.dev.chatMode = TRUE, !.dev.currentFace = "FACE_LISTENING",
              !.amp = TRUE, !.out = sendStatus("STATUS:LISTENING", conn, ip)]

\* CHAT_STOP that forgets to mute the amplifier
hChatStop_NoMute(e, conn, ip) ==
    [e EXCEPT !.dev.chatMode = FALSE, !.dev.isTalking = FALSE,
              !.dev.currentColor = CRGB_White, !.dev.currentFace = "FACE_SLEEP",
              !.out = sendStatus("STATUS:MUTE", conn, ip)]

hChatStop(e, conn, ip) ==
    [e EXCEPT !.dev.chatMode = FALSE, !.dev.isTalking = FALSE,
              !.dev.currentColor = CRGB_White, !.dev.currentFace = "FACE_SLEEP",
              !.amp = FALSE, !.out = sendStatus("STATUS:MUTE", conn, ip)]

\* SERVO_CAL with a wrong upper limit
hServoCal_WrongLimit(e, cmd) ==
    LET newNeutral == toInt(substringFrom(cmd, 10))
    IN IF newNeutral >= 1400 /\ newNeutral <= 1700
       THEN [e EXCEPT !.srv.neutralPan = newNeutral, !.srv.neutralTilt = newNeutral,
                      !.log = IF e.srv.panAttached
                              THEN <<ServoOp("pan", "writeMicroseconds", newNeutral),
                                     ServoOp("tilt", "writeMicroseconds", newNeutral)>>
                              ELSE <<>>]
       ELSE e

hServoCal(e, cmd) ==
    LET newNeutral == toInt(substringFrom(cmd, 10))
    IN IF newNeutral >= 1400 /\ newNeutral <= 1600
       THEN [e EXCEPT !.srv.neutralPan = newNeutral, !.srv.neutralTilt = newNeutral,
                      !.log = IF e.srv.panAttached
                              THEN <<ServoOp("pan", "writeMicroseconds", newNeutral),
                                     ServoOp("tilt", "writeMicroseconds", newNeutral)>>
                              ELSE <<>>]
       ELSE e

hServoCalPan(e, cmd) ==
    LET newNeutral == toInt(substringFrom(cmd, 14))
    IN IF newNeutral >= 1400 /\ newNeutral <= 1600
       THEN [e EXCEPT !.srv.neutralPan = newNeutral,
                      !.log = IF e.srv.panAttached
                              THEN <<ServoOp("pan", "writeMicroseconds", newNeutral)>>
                              ELSE <<>>]
       ELSE e

hServoCalTilt(e, cmd) ==
    LET newNeutral == toInt(substringFrom(cmd, 15))
    IN IF newNeutral >= 1400 /\ newNeutral <= 1600
       THEN [e EXCEPT !.srv.neutralTilt = newNeutral,
                      !.log = IF e.srv.tiltAttached
                              THEN <<ServoOp("tilt", "writeMicroseconds", newNeutral)>>
                              ELSE <<>>]
       ELSE e

hServoEnable(e) ==
    [e EXCEPT !.srv.panAttached = TRUE, !.srv.tiltAttached = TRUE,
              !.srv.currentPanAngle = 90, !.srv.currentTiltAngle = 90,
              !.log = <<ServoOp("pan", "attach", 0), ServoOp("tilt", "attach", 0),
                        ServoOp("pan", "write", 90), ServoOp("tilt", "write", 90)>>]

hServoDisable(e) ==
    [e EXCEPT !.srv.panAttached = FALSE, !.srv.tiltAttached = FALSE,
              !.log = <<ServoOp("pan", "writeMicroseconds", e.srv.neutralPan),
                        ServoOp("tilt", "writeMicroseconds", e.srv.neutralTilt),
                        Delay(50),
                        ServoOp("pan", "detach", 0), ServoOp("tilt", "detach", 0)>>]

hServoStop(e) ==
    [e EXCEPT !.log = <<ServoOp("pan", "writeMicroseconds", e.srv.neutralPan),
                        ServoOp("tilt", "writeMicroseconds", e.srv.neutralTilt)>>]

\* SERVO_SPEED without the upper limit
hServoSpeed_NoUpperLimit(e, cmd) ==
    LET newSpeed == toInt(substringFrom(cmd, 12))
    IN IF newSpeed >= 10
       THEN [e EXCEPT !.srv.moveSpeed = newSpeed]
       ELSE e

hServoSpeed(e, cmd) ==
    LET newSpeed == toInt(substringFrom(cmd, 12))
    IN IF newSpeed >= 10 /\ newSpeed <= 200
       THEN [e EXCEPT !.srv.moveSpeed = newSpeed]
       ELSE e

hServoDuration(e, cmd) ==
    LET newDuration == toInt(substringFrom(cmd, 15))
    IN IF newDuration >= 50 /\ newDuration <= 1000
       THEN [e EXCEPT !.srv.moveDuration = newDuration]
       ELSE e

\* a timed burst: pulse, delay(moveDuration), neutral
Burst(servo, pulse, neutral, duration) ==
    <<ServoOp(servo, "writeMicroseconds", pulse), Delay(duration),
      ServoOp(servo, "writeMicroseconds", neutral)>>

hPanLeft(e) ==
    IF ~e.srv.panAttached THEN e
    ELSE [e EXCEPT !.log = Burst("pan", e.srv.neutralPan + e.srv.moveSpeed,
                                 e.srv.neutralPan, e.srv.moveDuration)]

hPanRight(e) ==
    IF ~e.srv.panAttached THEN e
    ELSE [e EXCEPT !.log = Burst("pan", e.srv.neutralPan - e.srv.moveSpeed,
                                 e.srv.neutralPan, e.srv.moveDuration)]

hTiltUp(e) ==
    IF ~e.srv.tiltAttached THEN e
    ELSE [e EXCEPT !.log = Burst("tilt", e.srv.neutralTilt + e.srv.moveSpeed,
                                 e.srv.neutralTilt, e.srv.moveDuration)]

hTiltDown(e) ==
    IF ~e.srv.tiltAttached THEN e
    ELSE [e EXCEPT !.log = Burst("tilt", e.srv.neutralTilt - e.srv.moveSpeed,
                                 e.srv.neutralTilt, e.srv.moveDuration)]

hServoTest(e) ==
    IF ~e.srv.panAttached THEN e
    ELSE [e EXCEPT !.log =
            Burst("pan", e.srv.neutralPan + e.srv.moveSpeed, e.srv.neutralPan,
                  e.srv.moveDuration) \o <<Delay(500)>>
            \o Burst("pan", e.srv.neutralPan - e.srv.moveSpeed, e.srv.neutralPan,
                     e.srv.moveDuration) \o <<Delay(500)>>
            \o Burst("tilt", e.srv.neutralTilt + e.srv.moveSpeed, e.srv.neutralTilt,
                     e.srv.moveDuration) \o <<Delay(500)>>
            \o Burst("tilt", e.srv.neutralTilt - e.srv.moveSpeed, e.srv.neutralTilt,
                     e.srv.moveDuration)]

\* a loop that moves two degrees at a time
Sweep_ByTwo(servo, from, to) ==
    LET n == IF from < to THEN to - from + 1 ELSE from - to + 1
        pos(k) == IF from < to THEN from + 2 * (k - 1) ELSE from - 2 * (k - 1)
    IN [i \in 1..(2 * n) |->
            IF i % 2 = 1 THEN ServoOp(servo, "write", pos((i + 1) \div 2))
            ELSE Delay(20)]

\* the one-degree-at-a-time loop of SERVO_PAN / SERVO_TILT: a write and a
\* delay(servoStepDelay) for every position from the tracked angle to the target
Sweep(servo, from, to) ==
    LET n == IF from < to THEN to - from + 1 ELSE from - to + 1
        pos(k) == IF from < to THEN from + (k - 1) ELSE from - (k - 1)
    IN [i \in 1..(2 * n) |->
            IF i % 2 = 1 THEN ServoOp(servo, "write", pos((i + 1) \div 2))
            ELSE Delay(20)]

hServoPan(e, cmd) ==
    LET targetAngle == toInt(substringFrom(cmd, 10))
    IN IF ~e.srv.panAttached THEN e
       ELSE IF targetAngle < 30 \/ targetAngle > 150 THEN e
       ELSE [e EXCEPT !.log = Sweep("pan", e.srv.currentPanAngle, targetAngle),
                      !.srv.currentPanAngle = targetAngle]

hServoTilt(e, cmd) ==
    LET targetAngle == toInt(substringFrom(cmd, 11))
        invertedAngle == 180 - targetAngle
    IN IF ~e.srv.tiltAttached THEN e
       ELSE IF targetAngle < 30 \/ targetAngle > 150 THEN e
       ELSE [e EXCEPT !.log = Sweep("tilt", e.srv.currentTiltAngle, invertedAngle),
                      !.srv.currentTiltAngle = invertedAngle]

\* the handler selected by the chain; TEXT, MIC_TEST, AMP_STATUS, SERVO_STATUS
\* and SERVO_HELP only draw or print, an unmatched line falls off the end
Handle(v, cmd, e, conn, ip) ==
    CASE v = "DISCOVER" -> hDiscover(e, conn, ip)
      [] v = "PING" -> hPing(e, conn, ip)
      [] v = "PANTILT" -> hPanTilt(e, cmd)
      [] v = "RESET_POS" -> hResetPos(e)
      [] v = "F_TALK_START" -> hTalkStart(e)
      [] v = "F_TALK_STOP" -> hTalkStop(e)
      [] v = "F_HAPPY" -> hHappy(e)
      [] v = "F_SLEEP" -> hSleep(e)
      [] v = "F_LISTENING" -> hListening(e)
      [] v = "F_SAD" -> hSad(e)
      [] v = "F_LOVE" -> hLove(e)
      [] v = "L" -> hL(e, cmd)
      [] v = "B" -> hB(e, cmd)
      [] v = "RGB" -> hRGB(e, cmd)
      [] v = "COLOR" -> hColor(e, cmd)
      [] v = "CHAT_START" -> hChatStart(e, conn, ip)
      [] v = "CHAT_STOP" -> hChatStop(e, conn, ip)
      [] v = "SERVO_CAL" -> hServoCal(e, cmd)
      [] v = "SERVO_CAL_PAN" -> hServoCalPan(e, cmd)
      [] v = "SERVO_CAL_TILT" -> hServoCalTilt(e, cmd)
      [] v = "SERVO_ENABLE" -> hServoEnable(e)
      [] v = "SERVO_DISABLE" -> hServoDisable(e)
      [] v = "SERVO_STOP" -> hServoStop(e)
      [] v = "SERVO_SPEED" -> hServoSpeed(e, cmd)
      [] v = "SERVO_DURATION" -> hServoDuration(e, cmd)
      [] v = "PAN_LEFT" -> hPanLeft(e)
      [] v = "PAN_RIGHT" -> hPanRight(e)
      [] v = "TILT_UP" -> hTiltUp(e)
      [] v = "TILT_DOWN" -> hTiltDown(e)
      [] v = "SERVO_TEST" -> hServoTest(e)
      [] v = "SERVO_PAN" -> hServoPan(e, cmd)
      [] v = "SERVO_TILT" -> hServoTilt(e, cmd)
      [] OTHER -> e

(***************************************************************************)
(* Handlers that wait (tone, sound test) or act on the audio pipeline      *)
(***************************************************************************)
\* the [:freq,durMs] argument of TONE and SOUND_TEST
ToneParams(cmd, defFreq, defDur) ==
    IF indexOf(cmd, ":") >= 0
    THEN LET params == substringFrom(cmd, indexOf(cmd, ":") + 1)
             comma == indexOf(params, ",")
         IN IF comma > 0
            THEN <<toInt(substring(params, 0, comma)),
                   toInt(substringFrom(params, comma + 1))>>
            ELSE <<toInt(params), defDur>>
    ELSE <<defFreq, defDur>>

\* TONE: playTone up to its delay(duration_ms)
CmdTone(cmd) ==
    LET p == ToneParams(cmd, 1500, 300)
    IN IF p[1] <= 0 \/ p[2] <= 0
       THEN UNCHANGED <<ampEn, loopPc, wasChat>>
       ELSE /\ wasChat' = dev.chatMode
            /\ ampEn' = TRUE
            /\ loopPc' = "tone"

\* playTone after the delay: the tone stops and the amplifier is restored
ToneEnd ==
    /\ loopPc = "tone"
    /\ ampEn' = IF ~wasChat THEN FALSE ELSE ampEn
    /\ wasChat' = FALSE
    /\ loopPc' = "idle"
    /\ UNCHANGED <<dev, srv, peerVars, audioVars, taskVars, cmdVars, clk, outbox>>
    /\ UNCHANGED <<cam, spkIo, txLog>>

\* SOUND_TEST: the amplifier is enabled, then PIN_TONE is toggled in a busy loop
CmdSoundTest ==
    /\ ampEn' = TRUE
    /\ loopPc' = "sound_test"
    /\ UNCHANGED wasChat

\* SOUND_TEST after the busy loop
SoundTestEnd ==
    /\ loopPc = "sound_test"
    /\ ampEn' = FALSE
    /\ loopPc' = "idle"
    /\ UNCHANGED <<dev, srv, peerVars, audioVars, taskVars, cmdVars, clk, outbox, wasChat>>
    /\ UNCHANGED <<cam, spkIo, txLog>>

\* setupI2S: the capture driver, then the playback driver; a failed install returns
I2SOutcomes == {"ok", "mic_fail", "spk_fail"}

\* startAudioStreaming without the test of brainConnected
CmdAudioStart_NoPeerCheck(conn, ip) ==
    IF audioStreamingActive
    THEN /\ outbox' = sendStatus("AUDIO:STREAMING", conn, ip)
         /\ UNCHANGED <<audioVars, taskVars, loopPc, ampEn>>
    ELSE /\ \E r \in I2SOutcomes :
               /\ micDriver' = (r # "mic_fail")
               /\ spkDriver' = (r = "ok")
         /\ audioStreamingActive' = TRUE
         /\ micTaskHandle' = "mic"
         /\ micPc' = "run"
         /\ audioOut' = NoPacket
         /\ loopPc' = "start_spk"
         /\ outbox' = <<>>
         /\ UNCHANGED <<speakerTaskHandle, spkPc, firstPacketReceived, seq, ampEn>>

\* AUDIO_START: startAudioStreaming up to the creation of the capture task
CmdAudioStart(conn, ip) ==
    IF audioStreamingActive \/ ~conn
    THEN /\ outbox' = sendStatus("AUDIO:STREAMING", conn, ip)
         /\ UNCHANGED <<audioVars, taskVars, loopPc, ampEn>>
    ELSE /\ \E r \in I2SOutcomes :
               /\ micDriver' = (r # "mic_fail")
               /\ spkDriver' = (r = "ok")
         /\ audioStreamingActive' = TRUE
         /\ micTaskHandle' = "mic"
         /\ micPc' = "run"
         /\ audioOut' = NoPacket
         /\ loopPc' = "start_spk"
         /\ outbox' = <<>>
         /\ UNCHANGED <<speakerTaskHandle, spkPc, firstPacketReceived, seq, ampEn>>

\* startAudioStreaming: creation of the playback task; then the reply of AUDIO_START
StartSpeakerTask ==
    /\ loopPc = "start_spk"
    /\ speakerTaskHandle' = "spk"
    /\ spkPc' = "init"
    /\ outbox' = sendStatus("AUDIO:STREAMING", brainConnected, brainIP)
    /\ loopPc' = "idle"
    /\ UNCHANGED <<dev, srv, ampEn, peerVars, audioStreamingActive, micTaskHandle,
                   micDriver, spkDriver, micPc, firstPacketReceived, seq, audioOut,
                   cmdVars, clk, wasChat>>
    /\ UNCHANGED <<cam, spkIo, txLog>>

\* stopAudioStreaming that mutes the amplifier before its test of the flag
CmdAudioStop_MuteFirst(conn, ip) ==
    IF ~audioStreamingActive
    THEN /\ outbox' = sendStatus("AUDIO:STOPPED", conn, ip)
         /\ ampEn' = FALSE
         /\ UNCHANGED <<audioVars, taskVars, loopPc>>
    ELSE /\ audioStreamingActive' = FALSE
         /\ loopPc' = "stop_mic"
         /\ outbox' = <<>>
         /\ UNCHANGED <<micTaskHandle, speakerTaskHandle, micDriver, spkDriver,
                        taskVars, ampEn>>

\* AUDIO_STOP: stopAudioStreaming up to the clearing of the flag
CmdAudioStop(conn, ip) ==
    IF ~audioStreamingActive
    THEN /\ outbox' = sendStatus("AUDIO:STOPPED", conn, ip)
         /\ UNCHANGED <<audioVars, taskVars, loopPc, ampEn>>
    ELSE /\ audioStreamingActive' = FALSE
         /\ loopPc' = "stop_mic"
         /\ outbox' = <<>>
         /\ UNCHANGED <<micTaskHandle, speakerTaskHandle, micDriver, spkDriver,
                        taskVars, ampEn>>

\* vTaskDelete(h) of a task that has already deleted itself uses a freed task
\* control block: the call may pass unnoticed or bring the firmware down
StaleDelete == {"unnoticed", "crash"}

\* stopAudioStreaming: vTaskDelete(micTaskHandle)
StopMicTask ==
    /\ loopPc = "stop_mic"
    /\ \/ /\ micTaskHandle = "NULL" \/ micPc # "none"
          /\ micPc' = "none"
          /\ micTaskHandle' = "NULL"
          /\ loopPc' = "stop_spk"
          /\ UNCHANGED <<dev, srv, ampEn, peerVars, audioStreamingActive,
                         speakerTaskHandle, micDriver, spkDriver, spkPc,
                         firstPacketReceived, seq, audioOut, cmdVars, clk, outbox, wasChat, txLog>>
       \/ /\ micTaskHandle # "NULL" /\ micPc = "none"
          /\ \E o \in StaleDelete :
                IF o = "crash"
                THEN /\ Restart /\ clk' = InitClk /\ txLog' = Forgotten(txLog)
                     /\ UNCHANGED <<lastCmd, prevCmd, twice>>
                ELSE /\ micTaskHandle' = "NULL"
                     /\ loopPc' = "stop_spk"
                     /\ UNCHANGED <<dev, srv, ampEn, peerVars, audioStreamingActive,
                                    speakerTaskHandle, micDriver, spkDriver, micPc,
                                    spkPc, firstPacketReceived, seq, audioOut,
                                    cmdVars, clk, outbox, wasChat, txLog>>
    /\ UNCHANGED <<cam, spkIo>>

\* stopAudioStreaming that goes on to the drivers and leaves the playback task
\* alive
StopSpeakerTask_Late ==
    /\ loopPc = "stop_spk"
    /\ speakerTaskHandle' = "NULL"
    /\ loopPc' = "stop_drv"
    /\ UNCHANGED <<dev, srv, ampEn, peerVars, audioStreamingActive,
                   micTaskHandle, micDriver, spkDriver, micPc, spkPc,
                   firstPacketReceived, seq, audioOut, cmdVars, clk, outbox,
                   wasChat>>
    /\ UNCHANGED <<cam, spkIo, txLog>>

\* stopAudioStreaming: vTaskDelete(speakerTaskHandle)
StopSpeakerTask ==
    /\ loopPc = "stop_spk"
    /\ \/ /\ speakerTaskHandle = "NULL" \/ spkPc # "none"
          /\ spkPc' = "none"
          /\ firstPacketReceived' = FALSE
          /\ speakerTaskHandle' = "NULL"
          /\ loopPc' = "stop_drv"
          /\ UNCHANGED <<dev, srv, ampEn, peerVars, audioStreamingActive,
                         micTaskHandle, micDriver, spkDriver, micPc, seq, audioOut,
                         cmdVars, clk, outbox, wasChat, txLog>>
       \/ /\ speakerTaskHandle # "NULL" /\ spkPc = "none"
          /\ \E o \in StaleDelete :
                IF o = "crash"
                THEN /\ Restart /\ clk' = InitClk /\ txLog' = Forgotten(txLog)
                     /\ UNCHANGED <<lastCmd, prevCmd, twice>>
                ELSE /\ speakerTaskHandle' = "NULL"
                     /\ loopPc' = "stop_drv"
                     /\ UNCHANGED <<dev, srv, ampEn, peerVars, audioStreamingActive,
                                    micTaskHandle, micDriver, spkDriver, micPc, spkPc,
                                    firstPacketReceived, seq, audioOut, cmdVars, clk,
                                    outbox, wasChat, txLog>>
    /\ UNCHANGED <<cam, spkIo>>

\* stopAudioStreaming that also forgets the peer
StopUninstall_DropPeer ==
    /\ loopPc = "stop_drv"
    /\ micDriver' = FALSE
    /\ spkDriver' = FALSE
    /\ ampEn' = FALSE
    /\ outbox' = sendStatus("AUDIO:STOPPED", brainConnected, brainIP)
    /\ loopPc' = "idle"
    /\ brainConnected' = FALSE
    /\ brainIP' = NoIP
    /\ UNCHANGED <<dev, srv, audioStreamingActive, micTaskHandle,
                   speakerTaskHandle, taskVars, cmdVars, clk, wasChat>>
    /\ UNCHANGED <<cam, spkIo, txLog>>

\* stopAudioStreaming: both drivers uninstalled, amplifier muted; then the
\* reply of AUDIO_STOP
StopUninstall ==
    /\ loopPc = "stop_drv"
    /\ micDriver' = FALSE
    /\ spkDriver' = FALSE
    /\ ampEn' = FALSE
    /\ outbox' = sendStatus("AUDIO:STOPPED", brainConnected, brainIP)
    /\ loopPc' = "idle"
    /\ UNCHANGED <<dev, srv, peerVars, audioStreamingActive, micTaskHandle,
                   speakerTaskHandle, taskVars, cmdVars, clk, wasChat>>
    /\ UNCHANGED <<cam, spkIo, txLog>>

(***************************************************************************)
(* parseCommand                                                            *)
(***************************************************************************)
\* conn and ip are brainConnected and brainIP as the caller has left them
parseCommand(cmd, conn, ip) ==
    /\ lastCmd' = cmd
    /\ \E v \in {Verb(cmd)} :
          CASE v = "WIFI_RESET" -> Restart
            [] v = "TONE" ->
                 /\ CmdTone(cmd)
                 /\ brainConnected' = conn /\ brainIP' = ip
                 /\ outbox' = <<>> /\ servoLog' = <<>>
                 /\ UNCHANGED <<dev, srv, audioVars, taskVars>>
            [] v = "SOUND_TEST" ->
                 /\ CmdSoundTest
                 /\ brainConnected' = conn /\ brainIP' = ip
                 /\ outbox' = <<>> /\ servoLog' = <<>>
                 /\ UNCHANGED <<dev, srv, audioVars, taskVars>>
            [] v = "AUDIO_START" ->
                 /\ CmdAudioStart(conn, ip)
                 /\ brainConnected' = conn /\ brainIP' = ip
                 /\ servoLog' = <<>>
                 /\ UNCHANGED <<dev, srv, wasChat>>
            [] v = "AUDIO_STOP" ->
                 /\ CmdAudioStop(conn, ip)
                 /\ brainConnected' = conn /\ brainIP' = ip
                 /\ servoLog' = <<>>
                 /\ UNCHANGED <<dev, srv, wasChat>>
            [] OTHER ->
                 \E e \in {Handle(v, cmd,
                                   [dev |-> dev, srv |-> srv, amp |-> ampEn,
                                    out |-> <<>>, log |-> <<>>], conn, ip)} :
                    /\ dev' = e.dev
                    /\ srv' = e.srv
                    /\ ampEn' = e.amp
                    /\ outbox' = e.out
                    /\ servoLog' = e.log
                    /\ brainConnected' = conn /\ brainIP' = ip
                    /\ UNCHANGED <<audioVars, taskVars, loopPc, wasChat>>

(***************************************************************************)
(* The control loop's two sources of lines                                 *)
(***************************************************************************)
\* handleUDP that dispatches without remembering the sender
handleUDP_NoRemember(x, payload) ==
    /\ loopPc = "idle"
    /\ Len(payload) > 0
    /\ parseCommand(trim(payload), brainConnected, brainIP)
    /\ txLog' = AfterCommand(txLog, trim(payload))
    /\ UNCHANGED <<cam, spkIo>>

\* handleUDP: a datagram of at least one byte from endpoint x; the sender is
\* remembered before the trimmed line is dispatched
handleUDP(x, payload) ==
    /\ loopPc = "idle"
    /\ Len(payload) > 0
    /\ parseCommand(trim(payload), TRUE, x)
    /\ txLog' = AfterCommand(txLog, trim(payload))
    /\ UNCHANGED <<cam, spkIo>>

\* a console line handled as if it had a network origin
serialLine_Connects(line) ==
    /\ loopPc = "idle"
    /\ Len(trim(line)) > 0
    /\ parseCommand(trim(line), TRUE, brainIP)
    /\ txLog' = AfterCommand(txLog, trim(line))
    /\ UNCHANGED <<cam, spkIo>>

\* loop: a line read from the console; an empty line is dropped
serialLine(line) ==
    /\ loopPc = "idle"
    /\ Len(trim(line)) > 0
    /\ parseCommand(trim(line), brainConnected, brainIP)
    /\ txLog' = AfterCommand(txLog, trim(line))
    /\ UNCHANGED <<cam, spkIo>>

\* the granularity at which the passing of time is followed
TickMs == STATUS_SEND_INTERVAL \div 2

\* time passes, wherever the control loop is
Tick ==
    /\ clk.now + TickMs <= MaxTicks * TickMs
    /\ clk' = [clk EXCEPT !.now = clk.now + TickMs]
    /\ UNCHANGED <<dev, srv, ampEn, peerVars, audioVars, taskVars, cmdVars, loopPc,
                   wasChat, outbox>>
    /\ UNCHANGED <<cam, spkIo, txLog>>

\* loop: unsigned long currentMillis = millis()
LoopStart ==
    /\ clk.pass = "top"
    /\ clk' = [clk EXCEPT !.currentMillis = clk.now, !.pass = "udp"]
    /\ UNCHANGED <<dev, srv, ampEn, peerVars, audioVars, taskVars, cmdVars, loopPc,
                   wasChat, outbox>>
    /\ UNCHANGED <<cam, spkIo, txLog>>

\* the periodic status send whose test of the interval is strict
Heartbeat_Strict ==
    /\ clk.pass \in {"udp", "serial", "beat"}
    /\ loopPc = "idle"
    /\ IF brainConnected
          /\ clk.currentMillis - clk.lastStatusSendTime > STATUS_SEND_INTERVAL
       THEN /\ outbox' = sendStatus(IF dev.chatMode THEN "HEARTBEAT:LISTENING"
                                    ELSE "HEARTBEAT:MUTE", brainConnected, brainIP)
            /\ clk' = [clk EXCEPT !.lastStatusSendTime = clk.currentMillis,
                                  !.pass = "top", !.beatAt = clk.now,
                                  !.beatStamp = clk.currentMillis]
       ELSE /\ outbox' = <<>>
            /\ clk' = [clk EXCEPT !.pass = "top"]
    /\ UNCHANGED <<dev, srv, ampEn, peerVars, audioVars, taskVars, cmdVars, loopPc,
                   wasChat>>
    /\ UNCHANGED <<cam, spkIo, txLog>>

\* loop: the periodic status send that ends the pass; the interval is
\* measured from currentMillis, taken when the pass began
Heartbeat ==
    /\ clk.pass \in {"udp", "serial", "beat"}
    /\ loopPc = "idle"
    /\ IF brainConnected
          /\ clk.currentMillis - clk.lastStatusSendTime >= STATUS_SEND_INTERVAL
       THEN /\ outbox' = sendStatus(IF dev.chatMode THEN "HEARTBEAT:LISTENING"
                                    ELSE "HEARTBEAT:MUTE", brainConnected, brainIP)
            /\ clk' = [clk EXCEPT !.lastStatusSendTime = clk.currentMillis,
                                  !.pass = "top", !.beatAt = clk.now,
                                  !.beatStamp = clk.currentMillis]
       ELSE /\ outbox' = <<>>
            /\ clk' = [clk EXCEPT !.pass = "top"]
    /\ UNCHANGED <<dev, srv, ampEn, peerVars, audioVars, taskVars, cmdVars, loopPc,
                   wasChat>>
    /\ UNCHANGED <<cam, spkIo, txLog>>

\* Arduino min and max
min(a, b) == IF a < b THEN a ELSE b
max(a, b) == IF a > b THEN a ELSE b

TALK_ANIM_INTERVAL == 150

\* the values of random(-3, 4)
Wiggles == -3..3

\* updateServos of the older program kept at the end of the file: each call
\* moves the current angles two degrees toward the targets and writes them
updateServos_Positional ==
    /\ clk.pass \in {"udp", "serial"}
    /\ loopPc = "idle"
    /\ dev' = [dev EXCEPT
                  !.currentPan = IF dev.currentPan < dev.targetPan
                                 THEN min(dev.currentPan + 2, dev.targetPan)
                                 ELSE max(dev.currentPan - 2, dev.targetPan),
                  !.currentTilt = IF dev.currentTilt < dev.targetTilt
                                  THEN min(dev.currentTilt + 2, dev.targetTilt)
                                  ELSE max(dev.currentTilt - 2, dev.targetTilt)]
    /\ servoLog' = (IF dev.currentPan # dev.targetPan
                    THEN <<ServoOp("pan", "write", dev'.currentPan)>> ELSE <<>>)
                   \o (IF dev.currentTilt # dev.targetTilt
                       THEN <<ServoOp("tilt", "write", dev'.currentTilt)>> ELSE <<>>)
    /\ clk' = [clk EXCEPT !.pass = "anim"]
    /\ UNCHANGED <<srv, ampEn, peerVars, audioVars, taskVars, lastCmd, prevCmd,
                   twice, loopPc, wasChat, outbox>>
    /\ UNCHANGED <<cam, spkIo, txLog>>

\* loop: the call of updateServos, whose body is empty
updateServos ==
    /\ clk.pass \in {"udp", "serial"}
    /\ loopPc = "idle"
    /\ clk' = [clk EXCEPT !.pass = "anim"]
    /\ UNCHANGED <<dev, srv, ampEn, peerVars, audioVars, taskVars, cmdVars, loopPc,
                   wasChat, outbox>>
    /\ UNCHANGED <<cam, spkIo, txLog>>

\* loop: the face animation; while isTalking, every TALK_ANIM_INTERVAL the
\* tilt servo is written with currentTilt plus a random wiggle
FaceAnimation ==
    /\ clk.pass = "anim"
    /\ IF dev.isTalking
          /\ clk.currentMillis - clk.lastTalkAnimTime >= TALK_ANIM_INTERVAL
       THEN /\ clk' = [clk EXCEPT !.lastTalkAnimTime = clk.currentMillis,
                                  !.pass = "beat"]
            /\ \E wiggle \in Wiggles :
                   servoLog' = <<ServoOp("tilt", "write",
                                         constrain(dev.currentTilt + wiggle, 45, 135))>>
       ELSE /\ clk' = [clk EXCEPT !.pass = "beat"]
            /\ servoLog' = <<>>
    /\ UNCHANGED <<dev, srv, ampEn, peerVars, audioVars, taskVars, lastCmd, prevCmd,
                   twice, loopPc, wasChat, outbox>>
    /\ UNCHANGED <<cam, spkIo, txLog>>

(***************************************************************************)
(* The audio tasks                                                         *)
(***************************************************************************)
\* micStreamTask at the loop test: leaves the loop when the flag is clear,
\* otherwise reads a block; a block with data and a known peer is to be sent
MicRead ==
    /\ micPc = "run"
    /\ IF ~audioStreamingActive
       THEN micPc' = "exit"
       ELSE /\ micDriver /\ brainConnected
            /\ seq # <<0, MaxSeq>>
            /\ micPc' = "send"
    /\ UNCHANGED <<dev, srv, ampEn, peerVars, audioVars, spkPc, firstPacketReceived,
                   seq, audioOut, loopPc, wasChat, cmdVars, clk, outbox>>
    /\ UNCHANGED <<cam, spkIo, txLog>>

\* micStreamTask that keeps the address of the first packet of the session
MicSend_FirstPeer ==
    /\ micPc = "send"
    /\ audioOut' = [to |-> IF audioOut # NoPacket THEN audioOut.to ELSE brainIP,
                    seq |-> seq]
    /\ micPc' = "inc"
    /\ UNCHANGED <<dev, srv, ampEn, peerVars, audioVars, spkPc, firstPacketReceived,
                   seq, loopPc, wasChat, cmdVars, clk, outbox>>
    /\ txLog' = IF txLog.followed
                THEN [txLog EXCEPT !.seqs = @ \cup {seq},
                                   !.reused = @ \/ seq \in txLog.seqs]
                ELSE txLog
    /\ UNCHANGED <<cam, spkIo>>

\* micStreamTask: header with the current seq, one datagram to brainIP
MicSend ==
    /\ micPc = "send"
    /\ audioOut' = [to |-> brainIP, seq |-> seq]
    /\ micPc' = "inc"
    /\ UNCHANGED <<dev, srv, ampEn, peerVars, audioVars, spkPc, firstPacketReceived,
                   seq, loopPc, wasChat, cmdVars, clk, outbox>>
    /\ txLog' = IF txLog.followed
                THEN [txLog EXCEPT !.seqs = @ \cup {seq},
                                   !.reused = @ \/ seq \in txLog.seqs]
                ELSE txLog
    /\ UNCHANGED <<cam, spkIo>>

\* micStreamTask whose counter advances by two
MicInc_Twice ==
    /\ micPc = "inc"
    /\ seq' = Inc32(Inc32(seq))
    /\ micPc' = "run"
    /\ UNCHANGED <<dev, srv, ampEn, peerVars, audioVars, spkPc, firstPacketReceived,
                   audioOut, loopPc, wasChat, cmdVars, clk, outbox>>
    /\ UNCHANGED <<cam, spkIo, txLog>>

\* micStreamTask: seq++ and vTaskDelay(1)
MicInc ==
    /\ micPc = "inc"
    /\ seq' = Inc32(seq)
    /\ micPc' = "run"
    /\ UNCHANGED <<dev, srv, ampEn, peerVars, audioVars, spkPc, firstPacketReceived,
                   audioOut, loopPc, wasChat, cmdVars, clk, outbox>>
    /\ UNCHANGED <<cam, spkIo, txLog>>

\* micStreamTask after its loop: vTaskDelete(NULL); the handle is left as it is
MicExit ==
    /\ micPc = "exit"
    /\ micPc' = "none"
    /\ UNCHANGED <<dev, srv, ampEn, peerVars, audioVars, spkPc, firstPacketReceived,
                   seq, audioOut, loopPc, wasChat, cmdVars, clk, outbox>>
    /\ UNCHANGED <<cam, spkIo, txLog>>

\* speakerPlaybackTask before its loop: the amplifier is muted
SpeakerInit ==
    /\ spkPc = "init"
    /\ ampEn' = FALSE
    /\ firstPacketReceived' = FALSE
    /\ spkPc' = "run"
    /\ UNCHANGED <<dev, srv, peerVars, audioVars, micPc, seq, audioOut, loopPc,
                   wasChat, cmdVars, clk, outbox>>
    /\ UNCHANGED <<cam, spkIo, txLog>>

\* speakerPlaybackTask that takes a pass without bytes for the first packet
SpeakerPoll_CountsEmpty ==
    /\ spkPc = "run"
    /\ IF ~audioStreamingActive
       THEN spkPc' = "exit" /\ UNCHANGED <<ampEn, firstPacketReceived>>
       ELSE \/ spkPc' = "play" /\ UNCHANGED <<ampEn, firstPacketReceived>>
            \/ /\ spkPc' = "run"
               /\ ampEn' = IF ~firstPacketReceived THEN TRUE ELSE ampEn
               /\ firstPacketReceived' = TRUE
    /\ UNCHANGED <<dev, srv, peerVars, audioVars, micPc, seq, audioOut, loopPc,
                   wasChat, cmdVars, clk, outbox>>
    /\ IF audioStreamingActive /\ spkIo.followed
       THEN \E packetSize \in PacketSizes :
               spkIo' = [spkIo EXCEPT !.packetSize = packetSize,
                                      !.bytesRead = speakerRead(packetSize),
                                      !.bytes_written = 0]
       ELSE UNCHANGED spkIo
    /\ UNCHANGED <<cam, txLog>>

\* speakerPlaybackTask at the loop test: leaves the loop when the flag is
\* clear; otherwise parsePacket and read, which give bytes to play; a pass
\* that finds no datagram, or one from which nothing is read, only waits
\* (vTaskDelay) and leaves the task where it is
SpeakerPoll ==
    /\ spkPc = "run"
    /\ spkPc' = IF ~audioStreamingActive THEN "exit" ELSE "play"
    /\ UNCHANGED <<dev, srv, ampEn, peerVars, audioVars, micPc, firstPacketReceived,
                   seq, audioOut, loopPc, wasChat, cmdVars, clk, outbox>>
    /\ IF audioStreamingActive /\ spkIo.followed
       THEN \E packetSize \in PacketSizes :
               spkIo' = [spkIo EXCEPT !.packetSize = packetSize,
                                      !.bytesRead = speakerRead(packetSize),
                                      !.bytes_written = 0]
       ELSE UNCHANGED spkIo
    /\ UNCHANGED <<cam, txLog>>

\* speakerPlaybackTask that enables the amplifier for every packet
SpeakerPlay_AlwaysEnable ==
    /\ spkPc = "play"
    /\ ampEn' = TRUE
    /\ firstPacketReceived' = TRUE
    /\ spkPc' = "run"
    /\ UNCHANGED <<dev, srv, peerVars, audioVars, micPc, seq, audioOut, loopPc,
                   wasChat, cmdVars, clk, outbox>>
    /\ spkIo' = [spkIo EXCEPT !.bytes_written = spkIo.bytesRead]
    /\ UNCHANGED <<cam, txLog>>

\* speakerPlaybackTask with bytes read: the first time the amplifier is
\* enabled; i2s_write, vTaskDelay(1)
SpeakerPlay ==
    /\ spkPc = "play"
    /\ ampEn' = IF ~firstPacketReceived THEN TRUE ELSE ampEn
    /\ firstPacketReceived' = TRUE
    /\ spkPc' = "run"
    /\ UNCHANGED <<dev, srv, peerVars, audioVars, micPc, seq, audioOut, loopPc,
                   wasChat, cmdVars, clk, outbox>>
    /\ spkIo' = [spkIo EXCEPT !.bytes_written = spkIo.bytesRead]
    /\ UNCHANGED <<cam, txLog>>

\* speakerPlaybackTask after its loop: mute unless in chat mode, vTaskDelete(NULL)
SpeakerExit ==
    /\ spkPc = "exit"
    /\ ampEn' = IF ~dev.chatMode THEN FALSE ELSE ampEn
    /\ firstPacketReceived' = FALSE
    /\ spkPc' = "none"
    /\ UNCHANGED <<dev, srv, peerVars, audioVars, micPc, seq, audioOut, loopPc,
                   wasChat, cmdVars, clk, outbox>>
    /\ UNCHANGED <<cam, spkIo, txLog>>

(***************************************************************************)
(* Specification of the control protocol with the audio pipeline           *)
(***************************************************************************)
\* a line as a sender may frame it: leading blank, trailing newline
Padded(l) == <<" ">> \o l \o <<"\n">>

CoreLines ==
    {S_DISCOVER, S_F_TALK_START, S_F_TALK_STOP, S_F_SLEEP, S_CHAT_START,
     S_CHAT_STOP, S_TONE, S_SOUND_TEST, S_AUDIO_START, S_AUDIO_STOP, S_WIFI_RESET,
     Padded(S_DISCOVER), <<" ">>}

UdpCore ==
    /\ \E x \in Peers : \E l \in CoreLines : handleUDP(x, l)
    /\ UNCHANGED <<prevCmd, clk, twice>>

SerialCore ==
    /\ \E l \in CoreLines : serialLine(l)
    /\ UNCHANGED <<prevCmd, clk, twice>>

Next ==
    \/ UdpCore
    \/ SerialCore
    \/ ToneEnd
    \/ SoundTestEnd
    \/ StartSpeakerTask
    \/ StopMicTask
    \/ StopSpeakerTask
    \/ StopUninstall
    \/ MicRead
    \/ MicSend
    \/ MicInc
    \/ MicExit
    \/ SpeakerInit
    \/ SpeakerPoll
    \/ SpeakerPlay
    \/ SpeakerExit

Spec == Init /\ [][Next]_vars

(***************************************************************************)
(* Specification that also records the line before the last one            *)
(***************************************************************************)
ChatLines == {S_CHAT_START, S_CHAT_STOP, S_AUDIO_START, S_AUDIO_STOP}

UdpChat ==
    /\ \E x \in Peers : \E l \in ChatLines : handleUDP(x, l)
    /\ prevCmd' = lastCmd
    /\ UNCHANGED <<clk, twice>>

SerialChat ==
    /\ \E l \in ChatLines : serialLine(l)
    /\ prevCmd' = lastCmd
    /\ UNCHANGED <<clk, twice>>

NextChat ==
    \/ UdpChat
    \/ SerialChat
    \/ StartSpeakerTask
    \/ StopMicTask
    \/ StopSpeakerTask
    \/ StopUninstall
    \/ MicRead
    \/ MicSend
    \/ MicInc
    \/ MicExit
    \/ SpeakerInit
    \/ SpeakerPoll
    \/ SpeakerPlay
    \/ SpeakerExit

SpecChat == Init /\ [][NextChat]_vars

(***************************************************************************)
(* Specification of the audio-out sequence counter.  The counter is followed *)
(* from power-on and from the value it has two packets before it wraps.      *)
(***************************************************************************)
\* 2^32 - 2
NearWrap == <<Half - 1, Half - 2>>

InitSeq == Boot /\ seq \in {<<0, 0>>, NearWrap} /\ spkIo = NoIo /\ txLog = NoTx

SeqLines == {S_AUDIO_START, S_AUDIO_STOP, S_WIFI_RESET}

UdpSeq ==
    /\ \E x \in Peers : \E l \in SeqLines : handleUDP(x, l)
    /\ UNCHANGED <<prevCmd, clk, twice>>

SerialSeq ==
    /\ \E l \in SeqLines : serialLine(l)
    /\ UNCHANGED <<prevCmd, clk, twice>>

NextSeq ==
    \/ UdpSeq
    \/ SerialSeq
    \/ StartSpeakerTask
    \/ StopMicTask
    \/ StopSpeakerTask
    \/ StopUninstall
    \/ MicRead
    \/ MicSend
    \/ MicInc
    \/ MicExit
    \/ SpeakerInit
    \/ SpeakerPoll
    \/ SpeakerPlay
    \/ SpeakerExit

SpecSeq == InitSeq /\ [][NextSeq]_vars

(***************************************************************************)
(* Specification of the commands that reply through sendStatus             *)
(***************************************************************************)
ReplyLines ==
    {S_DISCOVER, S_PING, S_CHAT_START, S_CHAT_STOP, S_AUDIO_START, S_AUDIO_STOP}

UdpReply ==
    /\ \E x \in Peers : \E l \in ReplyLines : handleUDP(x, l)
    /\ UNCHANGED <<prevCmd, clk, twice>>

SerialReply ==
    /\ \E l \in ReplyLines : serialLine(l)
    /\ UNCHANGED <<prevCmd, clk, twice>>

NextReply ==
    \/ UdpReply
    \/ SerialReply
    \/ StartSpeakerTask
    \/ StopMicTask
    \/ StopSpeakerTask
    \/ StopUninstall
    \/ MicRead
    \/ MicSend
    \/ MicInc
    \/ MicExit
    \/ SpeakerInit
    \/ SpeakerPoll
    \/ SpeakerPlay
    \/ SpeakerExit

SpecReply == Init /\ [][NextReply]_vars

(***************************************************************************)
(* Specification of a line dispatched twice in a row: the control loop     *)
(* handles a line to the end and then the same line again, while the audio *)
(* tasks make no step in between                                           *)
(***************************************************************************)
TwiceLines ==
    {S_F_TALK_START, S_CHAT_START, S_CHAT_STOP, S_TONE, S_SOUND_TEST,
     S_AUDIO_START, S_AUDIO_STOP, S_WIFI_RESET}

\* the line is the first of a pair (or of none), or the second of the pair
\* that is under way
PairStep(l) ==
    IF twice.ph = 1
    THEN /\ l = lastCmd
         /\ twice' = [ph |-> 2, st |-> DeviceState]
    ELSE twice' \in {NoPair, [ph |-> 1, st |-> <<>>]}

\* the second datagram of a pair comes from the peer that parseCommand saw at
\* the first dispatch, so that the two calls of parseCommand differ in nothing
UdpTwice ==
    /\ \E x \in Peers : \E l \in TwiceLines :
           /\ twice.ph = 1 => (brainConnected /\ brainIP = x)
           /\ handleUDP(x, l)
           /\ PairStep(l)
    /\ UNCHANGED <<prevCmd, clk>>

SerialTwice ==
    /\ \E l \in TwiceLines : serialLine(l) /\ PairStep(l)
    /\ UNCHANGED <<prevCmd, clk>>

\* the audio tasks run while no pair is under way
TaskTwice ==
    /\ twice.ph = 0
    /\ \/ MicRead
       \/ MicSend
       \/ MicInc
       \/ MicExit
       \/ SpeakerInit
       \/ SpeakerPoll
          \/ SpeakerPlay
       \/ SpeakerExit

NextTwice ==
    \/ UdpTwice
    \/ SerialTwice
    \/ ToneEnd
    \/ SoundTestEnd
    \/ StartSpeakerTask
    \/ StopMicTask
    \/ StopSpeakerTask
    \/ StopUninstall
    \/ TaskTwice

SpecTwice == Init /\ [][NextTwice]_vars

(***************************************************************************)
(* Specification of the lines outside the command grammar                  *)
(***************************************************************************)
L_HELLO == <<"H", "E", "L", "L", "O">>
L_PINGS == <<"P", "I", "N", "G", "S">>
L_discover == <<"d", "i", "s", "c", "o", "v", "e", "r">>
L_LOL == <<"L", "O", "L">>
L_BYE == <<"B", "Y", "E">>
L_PLOT == <<"P", "L", "O", "T">>
L_CAT == <<"C", "A", "T", ",", "D", "O", "G">>

\* lines that are neither a token nor a parameterized form of the grammar
UnknownLines == {L_HELLO, L_PINGS, L_discover, L_LOL, L_BYE, L_PLOT, L_CAT}

\* commands that bring the device into the states the unknown lines meet
KnownLines ==
    {S_CHAT_START, S_CHAT_STOP, S_F_HAPPY, S_SERVO_ENABLE,
     <<"L", "1", "2", "8">>, P_COLOR \o N_red, PanTiltLine(10, 200)}

UdpUnknown ==
    /\ \E x \in Peers : \E l \in UnknownLines \cup KnownLines : handleUDP(x, l)
    /\ UNCHANGED <<prevCmd, clk, twice>>

SerialUnknown ==
    /\ \E l \in UnknownLines \cup KnownLines : serialLine(l)
    /\ UNCHANGED <<prevCmd, clk, twice>>

NextUnknown == UdpUnknown \/ SerialUnknown

SpecUnknown == Init /\ [][NextUnknown]_vars

(***************************************************************************)
(* Specification of the tone: the device state in which a line is          *)
(* dispatched is recorded, so that the state after playTone can be         *)
(* compared with the state before it                                       *)
(***************************************************************************)
L_TONE_2000_100 ==
    S_TONE \o <<":", "2", "0", "0", "0", ",", "1", "0", "0">>
L_TONE_0_100 == S_TONE \o <<":", "0", ",", "1", "0", "0">>
L_TONE_440 == S_TONE \o <<":", "4", "4", "0">>

\* TONE lines whose frequency and duration are positive
PositiveTones == {S_TONE, L_TONE_2000_100, L_TONE_440}

ToneLines ==
    PositiveTones
    \cup {L_TONE_0_100, S_F_TALK_START, S_F_TALK_STOP, S_CHAT_START, S_CHAT_STOP}

UdpTone ==
    /\ \E x \in Peers : \E l \in ToneLines : handleUDP(x, l)
    /\ twice' = [ph |-> 0, st |-> DeviceState]
    /\ UNCHANGED <<prevCmd, clk>>

SerialTone ==
    /\ \E l \in ToneLines : serialLine(l)
    /\ twice' = [ph |-> 0, st |-> DeviceState]
    /\ UNCHANGED <<prevCmd, clk>>

NextTone == UdpTone \/ SerialTone \/ ToneEnd

SpecTone == Init /\ [][NextTone]_vars

(***************************************************************************)
(* Specification of the commands that have a precondition                  *)
(***************************************************************************)
MoveLines == {S_PAN_LEFT, S_PAN_RIGHT, S_TILT_UP, S_TILT_DOWN}

PreLines == MoveLines \cup {S_AUDIO_START, S_AUDIO_STOP, S_SERVO_ENABLE, S_SERVO_DISABLE}

UdpPre ==
    /\ \E x \in Peers : \E l \in PreLines : handleUDP(x, l)
    /\ UNCHANGED <<prevCmd, clk, twice>>

SerialPre ==
    /\ \E l \in PreLines : serialLine(l)
    /\ UNCHANGED <<prevCmd, clk, twice>>

NextPre ==
    \/ UdpPre
    \/ SerialPre
    \/ StartSpeakerTask
    \/ StopMicTask
    \/ StopSpeakerTask
    \/ StopUninstall
    \/ MicRead
    \/ MicSend
    \/ MicInc
    \/ MicExit
    \/ SpeakerInit
    \/ SpeakerPoll
    \/ SpeakerPlay
    \/ SpeakerExit

SpecPre == Init /\ [][NextPre]_vars

(***************************************************************************)
(* Specification of the peer session                                       *)
(***************************************************************************)
PeerLines ==
    {S_DISCOVER, Padded(S_DISCOVER), <<" ">>, S_CHAT_START, S_AUDIO_START,
     S_AUDIO_STOP, S_WIFI_RESET}

UdpPeer ==
    /\ \E x \in Peers : \E l \in PeerLines : handleUDP(x, l)
    /\ UNCHANGED <<prevCmd, clk, twice>>

SerialPeer ==
    /\ \E l \in PeerLines : serialLine(l)
    /\ UNCHANGED <<prevCmd, clk, twice>>

NextPeer ==
    \/ UdpPeer
    \/ SerialPeer
    \/ StartSpeakerTask
    \/ StopMicTask
    \/ StopSpeakerTask
    \/ StopUninstall
    \/ MicRead
    \/ MicSend
    \/ MicInc
    \/ MicExit
    \/ SpeakerInit
    \/ SpeakerPoll
    \/ SpeakerPlay
    \/ SpeakerExit

SpecPeer == Init /\ [][NextPeer]_vars

(***************************************************************************)
(* Specification of the control loop's pass with the passing of time: the  *)
(* sample of millis(), at most one datagram, the console lines, the        *)
(* periodic status send.                                                   *)
(***************************************************************************)
BeatLines == {S_CHAT_START, S_CHAT_STOP, S_TONE}

UdpBeat ==
    /\ clk.pass = "udp"
    /\ \E x \in Peers : \E l \in BeatLines : handleUDP(x, l)
    /\ clk' = [clk EXCEPT !.pass = "serial"]
    /\ UNCHANGED <<prevCmd, twice>>

SerialBeat ==
    /\ clk.pass \in {"udp", "serial"}
    /\ \E l \in BeatLines : serialLine(l)
    /\ clk' = [clk EXCEPT !.pass = "serial"]
    /\ UNCHANGED <<prevCmd, twice>>

NextBeat ==
    \/ Tick
    \/ LoopStart
    \/ UdpBeat
    \/ SerialBeat
    \/ ToneEnd
    \/ Heartbeat

SpecBeat == Init /\ [][NextBeat]_vars

(***************************************************************************)
(* Specification of the pan/tilt target and colour commands                *)
(***************************************************************************)
PTArgs == {-200, 10, 90, 200}

\* an argument beyond the range of a long
Huge == <<"9", "9", "9", "9", "9", "9", "9", "9", "9", "9", "9">>

HugePanTilt == <<"P">> \o Huge \o <<"T", "-">> \o Huge

PanTiltLines == {PanTiltLine(a, b) : a \in PTArgs, b \in PTArgs} \cup {HugePanTilt}

L_COLOR_red == P_COLOR \o N_red
L_COLOR_RED == P_COLOR \o <<"R", "E", "D">>
L_COLOR_warm == P_COLOR \o N_warm
L_COLOR_notacolor == P_COLOR \o <<"n", "o", "t", "a", "c", "o", "l", "o", "r">>
L_COLOR_dark_red == P_COLOR \o <<"d", "a", "r", "k", ",", "r", "e", "d">>
L_RGB == <<"C", "1", "0", ",", "2", "0", ",", "3", "0">>

\* COLOR:<name> lines whose name is not in the colour table
UnknownColorLines == {L_COLOR_notacolor, L_COLOR_dark_red}

ParamLines ==
    PanTiltLines \cup UnknownColorLines
    \cup {L_COLOR_red, L_COLOR_RED, L_COLOR_warm, L_RGB, S_F_LOVE, S_F_SLEEP,
          S_RESET_POS}

UdpParam ==
    /\ \E x \in Peers : \E l \in ParamLines : handleUDP(x, l)
    /\ UNCHANGED <<prevCmd, clk, twice>>

SerialParam ==
    /\ \E l \in ParamLines : serialLine(l)
    /\ UNCHANGED <<prevCmd, clk, twice>>

NextParam == UdpParam \/ SerialParam

SpecParam == Init /\ [][NextParam]_vars

(***************************************************************************)
(* Specification of the servo commands                                     *)
(***************************************************************************)
\* arguments outside and inside the accepted ranges
CalArgs == {1399, 1450, 1600, 1601, 1700}
SpeedArgs == {9, 200, 201}
DurationArgs == {49, 50, 1001}

RejectedServoLines ==
    {ArgLine(p, v) : p \in {P_SERVO_CAL, P_SERVO_CAL_PAN, P_SERVO_CAL_TILT},
                     v \in {1399, 1601, 1700}}
    \cup {ArgLine(P_SERVO_SPEED, n) : n \in {9, 201}}
    \cup {ArgLine(P_SERVO_DURATION, n) : n \in {49, 1001}}

ServoLines ==
    {S_SERVO_ENABLE, S_SERVO_DISABLE, S_SERVO_STOP, S_PAN_LEFT, S_PAN_RIGHT,
     S_TILT_UP, S_TILT_DOWN}
    \cup {ArgLine(P_SERVO_CAL, v) : v \in CalArgs}
    \cup {ArgLine(P_SERVO_CAL_PAN, v) : v \in CalArgs}
    \cup {ArgLine(P_SERVO_CAL_TILT, v) : v \in CalArgs}
    \cup {ArgLine(P_SERVO_SPEED, n) : n \in SpeedArgs}
    \cup {ArgLine(P_SERVO_DURATION, n) : n \in DurationArgs}

UdpServo ==
    /\ \E x \in Peers : \E l \in ServoLines : handleUDP(x, l)
    /\ UNCHANGED <<prevCmd, clk, twice>>

SerialServo ==
    /\ \E l \in ServoLines : serialLine(l)
    /\ UNCHANGED <<prevCmd, clk, twice>>

NextServo == UdpServo \/ SerialServo

SpecServo == Init /\ [][NextServo]_vars

(***************************************************************************)
(* Specification of the arguments that are not numbers                     *)
(***************************************************************************)
\* argument texts in which atol finds no digit to read
NonNumeric == {<<"x">>, <<"a", "b", "c">>, <<"-">>, <<"x", "1">>}

NonNumericPanTilt == {<<"P">> \o x \o <<"T">> \o y : x \in NonNumeric, y \in NonNumeric}

NonNumericL == {<<"L">> \o x : x \in NonNumeric}

NonNumericB == {<<"B">> \o x : x \in NonNumeric}

NonNumericServo ==
    {p \o x : p \in {P_SERVO_CAL, P_SERVO_SPEED, P_SERVO_DURATION}, x \in NonNumeric}

ArgLines ==
    NonNumericPanTilt \cup NonNumericL \cup NonNumericB \cup NonNumericServo
    \cup {PanTiltLine(90, 45), ArgLine(<<"L">>, 200), ArgLine(P_SERVO_CAL, 1450),
          ArgLine(P_SERVO_SPEED, 100), ArgLine(P_SERVO_DURATION, 500)}

UdpArg ==
    /\ \E x \in Peers : \E l \in ArgLines : handleUDP(x, l)
    /\ UNCHANGED <<prevCmd, clk, twice>>

SerialArg ==
    /\ \E l \in ArgLines : serialLine(l)
    /\ UNCHANGED <<prevCmd, clk, twice>>

NextArg == UdpArg \/ SerialArg

SpecArg == Init /\ [][NextArg]_vars

(***************************************************************************)
(* Specification of the whole pass of the control loop: the sample of      *)
(* millis(), at most one datagram, the console lines, updateServos, the    *)
(* face animation, the periodic status send.                               *)
(***************************************************************************)
L_P90T45 == PanTiltLine(90, 45)
L_P30T150 == PanTiltLine(30, 150)

MotionLines == {L_P90T45, L_P30T150, S_RESET_POS, S_F_TALK_START, S_F_HAPPY}

UdpMotion ==
    /\ clk.pass = "udp"
    /\ \E x \in Peers : \E l \in MotionLines : handleUDP(x, l)
    /\ clk' = [clk EXCEPT !.pass = "serial"]
    /\ UNCHANGED <<prevCmd, twice>>

SerialMotion ==
    /\ clk.pass \in {"udp", "serial"}
    /\ \E l \in MotionLines : serialLine(l)
    /\ clk' = [clk EXCEPT !.pass = "serial"]
    /\ UNCHANGED <<prevCmd, twice>>

\* the status send at its place in the pass, after the face animation
StatusSend == clk.pass = "beat" /\ Heartbeat

NextMotion ==
    \/ Tick
    \/ LoopStart
    \/ UdpMotion
    \/ SerialMotion
    \/ updateServos
    \/ FaceAnimation
    \/ StatusSend

SpecMotion == Init /\ [][NextMotion]_vars

\* loop() is called again whenever it returns: a pass that has begun runs to
\* its end and another begins
LoopFair ==
    /\ WF_vars(LoopStart)
    /\ WF_vars(updateServos)
    /\ WF_vars(FaceAnimation)
    /\ WF_vars(StatusSend)

SpecMotionFair == SpecMotion /\ LoopFair

(***************************************************************************)
(* Specification of the brightness commands                                *)
(***************************************************************************)
LightArgs == {-300, -1, 0, 1, 10, 25, 50, 75, 90, 99, 100, 101, 128, 200, 255, 256, 300}

\* the L and B lines with the number each carries
LLines == {<<ArgLine(<<"L">>, n), n>> : n \in LightArgs}
BLines == {<<ArgLine(<<"B">>, n), n>> : n \in LightArgs}

\* arguments beyond the range of a long, which atol saturates
L_LHuge == <<"L">> \o Huge
L_BHuge == <<"B">> \o Huge
L_LHugeNeg == <<"L", "-">> \o Huge
L_BHugeNeg == <<"B", "-">> \o Huge

LightLines ==
    {p[1] : p \in LLines \cup BLines} \cup {L_LHuge, L_BHuge, L_LHugeNeg, L_BHugeNeg}

UdpLight ==
    /\ \E x \in Peers : \E l \in LightLines : handleUDP(x, l)
    /\ UNCHANGED <<prevCmd, clk, twice>>

SerialLight ==
    /\ \E l \in LightLines : serialLine(l)
    /\ UNCHANGED <<prevCmd, clk, twice>>

NextLight == UdpLight \/ SerialLight

SpecLight == Init /\ [][NextLight]_vars

(***************************************************************************)
(* Specification of the positional servo commands                          *)
(***************************************************************************)
PanAngles == {0, 29, 30, 31, 90, 150, 151, 180}
TiltAngles == {29, 30, 90, 149, 150, 151}

\* the SERVO_PAN: and SERVO_TILT: lines with the angle each carries
PanLines == {<<ArgLine(P_SERVO_PAN, a), a>> : a \in PanAngles}
TiltLines == {<<ArgLine(P_SERVO_TILT, a), a>> : a \in TiltAngles}

AngleLines ==
    {p[1] : p \in PanLines \cup TiltLines} \cup {S_SERVO_ENABLE, S_SERVO_DISABLE}

UdpAngle ==
    /\ \E x \in Peers : \E l \in AngleLines : handleUDP(x, l)
    /\ UNCHANGED <<prevCmd, clk, twice>>

SerialAngle ==
    /\ \E l \in AngleLines : serialLine(l)
    /\ UNCHANGED <<prevCmd, clk, twice>>

NextAngle == UdpAngle \/ SerialAngle

SpecAngle == Init /\ [][NextAngle]_vars

(***************************************************************************)
(* Specification of the talking and chat commands                          *)
(***************************************************************************)
TalkLines ==
    {S_F_TALK_START, S_F_TALK_STOP, S_CHAT_START, S_CHAT_STOP, S_SOUND_TEST,
     S_F_SLEEP, S_F_HAPPY, S_F_SAD, S_RESET_POS}

UdpTalk ==
    /\ \E x \in Peers : \E l \in TalkLines : handleUDP(x, l)
    /\ UNCHANGED <<prevCmd, clk, twice>>

SerialTalk ==
    /\ \E l \in TalkLines : serialLine(l)
    /\ UNCHANGED <<prevCmd, clk, twice>>

NextTalk == UdpTalk \/ SerialTalk \/ SoundTestEnd

SpecTalk == Init /\ [][NextTalk]_vars

(***************************************************************************)
(* The camera unit (firmware-cam).  startCameraServer starts one web       *)
(* server, whose task runs every URI handler to its end before it takes up *)
(* the next request; loop() runs in the Arduino task beside it.            *)
(***************************************************************************)
CamTickMs == STREAM_TIMEOUT_MS \div 2

CamQuiet ==
    UNCHANGED <<dev, srv, ampEn, peerVars, audioVars, taskVars, cmdVars, loopPc,
                wasChat, outbox, clk, spkIo, txLog>>

\* the camera unit's millis() advances
CamTick ==
    /\ cam.now + CamTickMs <= MaxCamTicks * CamTickMs
    /\ cam' = [cam EXCEPT !.now = cam.now + CamTickMs, !.event = "tick"]
    /\ CamQuiet

\* a client that has no request outstanding sends one
Request ==
    /\ cam.wifi
    /\ \E c \in Clients : \E uri \in {"/stream", "/disconnect", "/reboot"} :
          /\ c # cam.streamer
          /\ \A r \in cam.pending : r.client # c
          /\ cam' = [cam EXCEPT
                        !.pending = cam.pending \cup
                            {[client |-> c, uri |-> uri,
                              busy |-> cam.stream_client_connected]},
                        !.event = "request"]
    /\ CamQuiet

\* the sensor stops or resumes giving frames: esp_camera_fb_get returns NULL
\* while it gives none
CameraFault ==
    /\ cam' = [cam EXCEPT !.cameraOk = ~cam.cameraOk, !.event = "camera"]
    /\ CamQuiet

\* stream_handler from its entry to the stream loop: 503 when the flag is
\* set, otherwise the flag is set and the headers are sent
stream_handler ==
    /\ cam.httpd = "idle"
    /\ \E r \in cam.pending :
          /\ r.uri = "/stream"
          /\ IF cam.stream_client_connected
             THEN cam' = [cam EXCEPT !.pending = cam.pending \ {r},
                                     !.answer = <<r.client, "503">>,
                                     !.event = "busy"]
             ELSE cam' = [cam EXCEPT !.pending = cam.pending \ {r},
                                     !.stream_client_connected = TRUE,
                                     !.last_frame_time = cam.now,
                                     !.delivered = cam.now,
                                     !.httpd = "stream",
                                     !.streamer = r.client,
                                     !.answer = <<r.client, "200">>,
                                     !.event = "stream"]
    /\ CamQuiet

\* one iteration of the stream loop: the test of the flag, the capture, the
\* three sends; a failed capture is tried again, a failed send ends the loop
StreamLoop ==
    /\ cam.httpd = "stream"
    /\ IF ~cam.stream_client_connected
       THEN cam' = [cam EXCEPT !.httpd = "idle", !.streamer = NoClient,
                               !.event = "stream_end"]
       ELSE IF ~cam.cameraOk
       THEN cam' = [cam EXCEPT !.event = "no_frame"]
       ELSE \E res \in {"ESP_OK", "ESP_FAIL"} :
               IF res = "ESP_OK"
               THEN cam' = [cam EXCEPT !.delivered = cam.now, !.event = "frame"]
               ELSE cam' = [cam EXCEPT !.stream_client_connected = FALSE,
                                       !.httpd = "idle", !.streamer = NoClient,
                                       !.event = "stream_end"]
    /\ CamQuiet

\* disconnect_handler
disconnect_handler ==
    /\ cam.httpd = "idle"
    /\ \E r \in cam.pending :
          /\ r.uri = "/disconnect"
          /\ cam' = [cam EXCEPT
                        !.pending = cam.pending \ {r},
                        !.stream_client_connected = FALSE,
                        !.answer = <<r.client,
                                     IF cam.stream_client_connected
                                     THEN "Stream client disconnected"
                                     ELSE "No client connected">>,
                        !.event = "disconnect"]
    /\ CamQuiet

\* reboot_handler: esp_restart
reboot_handler ==
    /\ cam.httpd = "idle"
    /\ \E r \in cam.pending :
          /\ r.uri = "/reboot"
          /\ cam' = [InitCam EXCEPT !.event = "reboot", !.cameraOk = cam.cameraOk]
    /\ CamQuiet

\* the WiFi link is lost, or comes back without the loop's doing
WifiChange ==
    /\ cam' = [cam EXCEPT !.wifi = ~cam.wifi, !.event = "wifi"]
    /\ CamQuiet

\* loop that restarts only after more than WIFI_MAX_FAILS failures
CamLoop_Late ==
    /\ IF ~cam.wifi
       THEN \E status \in {"WL_CONNECTED", "WL_DISCONNECTED"} :
               IF status = "WL_CONNECTED"
               THEN cam' = [cam EXCEPT !.wifi = TRUE, !.wifi_fail_count = 0,
                                       !.failed = 0, !.event = "reconnected"]
               ELSE IF cam.wifi_fail_count + 1 > WIFI_MAX_FAILS
               THEN cam' = [InitCam EXCEPT !.event = "restart",
                                           !.cameraOk = cam.cameraOk]
               ELSE cam' = [cam EXCEPT !.wifi_fail_count = cam.wifi_fail_count + 1,
                                       !.failed = cam.failed + 1,
                                       !.event = "reconnect_failed"]
       ELSE cam' = [cam EXCEPT !.wifi_fail_count = 0, !.failed = 0,
                               !.event = "connected"]
    /\ CamQuiet

\* loop: with WiFi down the counter is incremented and wifiMulti.run tried;
\* a success clears the counter, a failure with the counter at WIFI_MAX_FAILS
\* restarts; with WiFi up the counter is cleared
CamLoop ==
    /\ IF ~cam.wifi
       THEN \E status \in {"WL_CONNECTED", "WL_DISCONNECTED"} :
               IF status = "WL_CONNECTED"
               THEN cam' = [cam EXCEPT !.wifi = TRUE, !.wifi_fail_count = 0,
                                       !.failed = 0, !.event = "reconnected"]
               ELSE IF cam.wifi_fail_count + 1 >= WIFI_MAX_FAILS
               THEN cam' = [InitCam EXCEPT !.event = "restart",
                                           !.cameraOk = cam.cameraOk]
               ELSE cam' = [cam EXCEPT !.wifi_fail_count = cam.wifi_fail_count + 1,
                                       !.failed = cam.failed + 1,
                                       !.event = "reconnect_failed"]
       ELSE cam' = [cam EXCEPT !.wifi_fail_count = 0, !.failed = 0,
                               !.event = "connected"]
    /\ CamQuiet

NextCam ==
    \/ CamTick
    \/ Request
    \/ CameraFault
    \/ stream_handler
    \/ StreamLoop
    \/ disconnect_handler
    \/ reboot_handler

SpecCam == Init /\ [][NextCam]_vars

\* the web server task and the stream loop in it keep running
CamFair == WF_vars(stream_handler) /\ WF_vars(StreamLoop)

SpecCamFair == SpecCam /\ CamFair

\* the camera unit's loop() with a WiFi link that comes and goes
NextWifi ==
    \/ CamTick
    \/ Request
    \/ reboot_handler
    \/ WifiChange
    \/ CamLoop

SpecWifi == Init /\ [][NextWifi]_vars

(***************************************************************************)
(* Specification of the playback task with the sizes of the datagrams      *)
(* that arrive on the audio-in port                                        *)
(***************************************************************************)
InitPlay ==
    /\ Boot
    /\ seq = <<0, 0>>
    /\ spkIo = [NoIo EXCEPT !.followed = TRUE]
    /\ txLog = NoTx

SpecPlay == InitPlay /\ [][NextChat]_vars

\* AUDIO_START / AUDIO_STOP cycles with the numbers of the transmitted
\* packets recorded
InitReuse ==
    /\ Boot
    /\ seq = <<0, 0>>
    /\ spkIo = NoIo
    /\ txLog = [NoTx EXCEPT !.followed = TRUE]

SpecReuse == InitReuse /\ [][NextSeq]_vars

\* the commands that set the face or the talking state, with the line before
\* the last one recorded
FaceLines ==
    {S_F_TALK_START, S_F_TALK_STOP, S_F_HAPPY, S_F_SLEEP, S_F_LISTENING, S_F_SAD,
     S_F_LOVE, S_CHAT_START, S_CHAT_STOP}

UdpFace ==
    /\ \E x \in Peers : \E l \in FaceLines : handleUDP(x, l)
    /\ prevCmd' = lastCmd
    /\ UNCHANGED <<clk, twice>>

SerialFace ==
    /\ \E l \in FaceLines : serialLine(l)
    /\ prevCmd' = lastCmd
    /\ UNCHANGED <<clk, twice>>

NextFace == UdpFace \/ SerialFace

SpecFace == Init /\ [][NextFace]_vars

\* the control loop's pass with commands from several endpoints, the
\* periodic status send and the capture task
RouteLines == {S_PING, S_AUDIO_START}

UdpRoute ==
    /\ clk.pass = "udp"
    /\ \E x \in Peers : \E l \in RouteLines : handleUDP(x, l)
    /\ clk' = [clk EXCEPT !.pass = "serial"]
    /\ UNCHANGED <<prevCmd, twice>>

SerialRoute ==
    /\ clk.pass \in {"udp", "serial"}
    /\ \E l \in RouteLines : serialLine(l)
    /\ clk' = [clk EXCEPT !.pass = "serial"]
    /\ UNCHANGED <<prevCmd, twice>>

NextRoute ==
    \/ Tick
    \/ LoopStart
    \/ UdpRoute
    \/ SerialRoute
    \/ Heartbeat
    \/ StartSpeakerTask
    \/ MicRead
    \/ MicSend
    \/ MicInc

SpecRoute == Init /\ [][NextRoute]_vars

\* the movement, stop and calibration commands, with arguments at the ends of
\* the accepted ranges and just outside them
PulseLines ==
    {S_SERVO_ENABLE, S_SERVO_DISABLE, S_SERVO_STOP, S_STOP, S_PAN_LEFT,
     S_PAN_RIGHT, S_TILT_UP, S_TILT_DOWN, S_SERVO_TEST,
     ArgLine(P_SERVO_CAL, 1400), ArgLine(P_SERVO_CAL, 1399),
     ArgLine(P_SERVO_CAL_PAN, 1600), ArgLine(P_SERVO_CAL_PAN, 1601),
     ArgLine(P_SERVO_CAL_TILT, 1601),
     ArgLine(P_SERVO_SPEED, 200), ArgLine(P_SERVO_SPEED, 201),
     ArgLine(P_SERVO_DURATION, 1000), ArgLine(P_SERVO_DURATION, 1001)}

UdpPulse ==
    /\ \E x \in Peers : \E l \in PulseLines : handleUDP(x, l)
    /\ UNCHANGED <<prevCmd, clk, twice>>

SerialPulse ==
    /\ \E l \in PulseLines : serialLine(l)
    /\ UNCHANGED <<prevCmd, clk, twice>>

NextPulse == UdpPulse \/ SerialPulse

SpecPulse == Init /\ [][NextPulse]_vars

\* one streaming session with the commands that enable and mute the
\* amplifier, and the playback task with the sizes of its datagrams recorded
MuteLines ==
    {S_AUDIO_START, S_AUDIO_STOP, S_F_TALK_START, S_F_TALK_STOP, S_F_SLEEP,
     S_CHAT_START, S_CHAT_STOP, S_TONE}

UdpMute ==
    /\ \E x \in Peers : \E l \in MuteLines : handleUDP(x, l)
    /\ UNCHANGED <<prevCmd, clk, twice>>

SerialMute ==
    /\ \E l \in MuteLines : serialLine(l)
    /\ UNCHANGED <<prevCmd, clk, twice>>

NextMute ==
    \/ UdpMute
    \/ SerialMute
    \/ ToneEnd
    \/ StartSpeakerTask
    \/ StopMicTask
    \/ StopSpeakerTask
    \/ StopUninstall
    \/ SpeakerInit
    \/ SpeakerPoll
    \/ SpeakerPlay
    \/ SpeakerExit

SpecMute == InitPlay /\ [][NextMute]_vars

TypeOK ==
    /\ ampEn \in BOOLEAN
    /\ brainIP \in Peers \cup {NoIP}
    /\ seq[1] \in 0..(Half - 1) /\ seq[2] \in 0..(Half - 1)
    /\ micPc \in {"none", "run", "send", "inc", "exit"}
    /\ spkPc \in {"none", "init", "run", "play", "exit"}
    /\ loopPc \in {"idle", "tone", "sound_test", "start_spk", "stop_mic", "stop_spk",
                   "stop_drv"}

(***************************************************************************)
(* Properties                                                              *)
(***************************************************************************)
\* a step in which parseCommand is given line l, from the network or the console
Dispatch(l) == (\E x \in Peers : handleUDP(x, l)) \/ serialLine(l)

\* a tone is playing: the control loop is inside playTone or the sound test
toneActive == loopPc \in {"tone", "sound_test"}

\* the effect of a restart that the properties rely on
RestartStep ==
    /\ dev' = InitDev
    /\ ~brainConnected'
    /\ ~audioStreamingActive'
    /\ micPc' = "none"
    /\ spkPc' = "none"
    /\ loopPc' = "idle"

StatusTo(x, msg) == <<[to |-> x, port |-> UDP_PORT, msg |-> msg]>>

\* C1: in every reachable state the amplifier enable line is high if and only
\* if isTalking, chatMode, toneActive or firstPacketReceived holds.
C1_AmpInvariant ==
    ampEn = (dev.isTalking \/ dev.chatMode \/ toneActive \/ firstPacketReceived)

\* C3 as stated: an audio-out packet carries the counter's current value and
\* one more than the previous packet of the session; the counter changes only
\* by one, after a packet has been sent, while audioStreamingActive is true;
\* it returns to 0 only by a restart (or by wrapping).
C3_SeqWhileActive ==
    [][/\ (audioOut' # audioOut /\ audioOut' # NoPacket) =>
            /\ audioOut'.seq = seq
            /\ audioOut # NoPacket => audioOut'.seq = Inc32(audioOut.seq)
       /\ (seq' # seq) =>
            \/ seq' = <<0, 0>> /\ RestartStep
            \/ /\ seq' = Inc32(seq)
               /\ audioOut.seq = seq
               /\ audioStreamingActive
      ]_vars

\* C3 amended: as above, except that the counter may also change after
\* AUDIO_STOP has cleared audioStreamingActive and before it has deleted the
\* capture task.
C3_SeqInSession ==
    [][/\ (audioOut' # audioOut /\ audioOut' # NoPacket) =>
            /\ audioOut'.seq = seq
            /\ audioOut # NoPacket => audioOut'.seq = Inc32(audioOut.seq)
       /\ (seq' # seq) =>
            \/ seq' = <<0, 0>> /\ RestartStep
            \/ /\ seq' = Inc32(seq)
               /\ audioOut.seq = seq
               /\ audioStreamingActive \/ loopPc = "stop_mic"
      ]_vars

\* within one session the packet numbered 2^32 - 1 has been sent and the
\* counter has wrapped to 0
C3_Witness ==
    /\ audioStreamingActive
    /\ audioOut.seq = <<Half - 1, Half - 1>>
    /\ seq = <<0, 0>>

\* C4: AUDIO_START dispatched when no peer has ever been learned leaves
\* audioStreamingActive false, installs no driver and creates no task.
C4_NoPeerNoStart ==
    [][(lastCmd' = S_AUDIO_START /\ ~brainConnected' /\ Dispatch(S_AUDIO_START)) =>
           /\ ~audioStreamingActive'
           /\ ~micDriver' /\ ~spkDriver'
           /\ micPc' = "none" /\ spkPc' = "none"
           /\ micTaskHandle' = "NULL" /\ speakerTaskHandle' = "NULL"
           /\ loopPc' = "idle"
      ]_vars

C4_Witness ==
    /\ lastCmd = S_AUDIO_START
    /\ ~brainConnected
    /\ ~audioStreamingActive
    /\ micPc = "none" /\ spkPc = "none"

\* C5: AUDIO_STOP dispatched while audioStreamingActive is false terminates no
\* task, uninstalls no driver and changes no device state, the amplifier
\* enable line included.
C5_StopInactiveNoop ==
    [][(lastCmd' = S_AUDIO_STOP /\ ~audioStreamingActive /\ Dispatch(S_AUDIO_STOP)) =>
           UNCHANGED <<dev, srv, ampEn, audioVars, taskVars, loopPc, wasChat>>
      ]_vars

\* AUDIO_STOP has returned with streaming inactive and the amplifier still enabled
C5_Witness ==
    /\ lastCmd = S_AUDIO_STOP
    /\ loopPc = "idle"
    /\ ~audioStreamingActive
    /\ dev.chatMode
    /\ ampEn

\* C6: a datagram containing DISCOVER from endpoint x makes the peer session
\* connected with address x and sends exactly one reply LUMINA_BODY, to x.
C6_DiscoverReply ==
    [][lastCmd' = S_DISCOVER =>
           \A x \in Peers : \A l \in {S_DISCOVER, Padded(S_DISCOVER)} :
               handleUDP(x, l) =>
                   /\ brainConnected'
                   /\ brainIP' = x
                   /\ outbox' = StatusTo(x, "LUMINA_BODY")
      ]_vars

C6_Witness ==
    /\ lastCmd = S_DISCOVER
    /\ brainConnected
    /\ brainIP = 2
    /\ outbox = StatusTo(2, "LUMINA_BODY")

\* C7: CHAT_START and then CHAT_STOP from a connected peer: the expression
\* goes to LISTENING and then SLEEP, the amplifier is enabled and then muted,
\* one STATUS:LISTENING reply and then one STATUS:MUTE reply are sent.
C7_ChatStartStop ==
    [][\A x \in Peers :
           /\ handleUDP(x, S_CHAT_START) =>
                  /\ dev'.currentFace = "FACE_LISTENING"
                  /\ ampEn'
                  /\ outbox' = StatusTo(x, "STATUS:LISTENING")
           /\ (lastCmd = S_CHAT_START /\ handleUDP(x, S_CHAT_STOP)) =>
                  /\ dev.currentFace = "FACE_LISTENING"
                  /\ dev'.currentFace = "FACE_SLEEP"
                  /\ ~ampEn'
                  /\ outbox' = StatusTo(x, "STATUS:MUTE")
      ]_vars

C7_Witness ==
    /\ prevCmd = S_CHAT_START
    /\ lastCmd = S_CHAT_STOP
    /\ brainConnected
    /\ dev.currentFace = "FACE_SLEEP"
    /\ ~ampEn
    /\ outbox = StatusTo(brainIP, "STATUS:MUTE")

\* the bound of [lo, hi] nearest to x, x itself when it lies inside
Nearest(x, lo, hi) == IF x <= lo THEN lo ELSE IF x >= hi THEN hi ELSE x

\* C2: after P<a>T<b>, whatever a and b, the stored target has pan and tilt in
\* [30,150], each the nearest value to the argument, and isLocked is true.
C2_PanTiltClamped ==
    [][/\ \A a \in PTArgs : \A b \in PTArgs :
              (lastCmd' = PanTiltLine(a, b) /\ Dispatch(PanTiltLine(a, b))) =>
                  /\ dev'.targetPan = Nearest(a, 30, 150)
                  /\ dev'.targetTilt = Nearest(b, 30, 150)
                  /\ dev'.isLocked
       /\ (lastCmd' = HugePanTilt /\ Dispatch(HugePanTilt)) =>
              /\ dev'.targetPan = 150
              /\ dev'.targetTilt = 30
              /\ dev'.isLocked
      ]_vars

\* P200T10 has stored pan 150, tilt 30
C2_Witness ==
    /\ lastCmd = PanTiltLine(200, 10)
    /\ dev.targetPan = 150
    /\ dev.targetTilt = 30
    /\ dev.isLocked

\* C8: SERVO_CAL, SERVO_CAL_PAN, SERVO_CAL_TILT, SERVO_SPEED and
\* SERVO_DURATION with an argument outside the accepted range leave the
\* neutral pulse widths, speed and duration as they were, write nothing to a
\* servo and send no reply.
C8_OutOfRangeRejected ==
    [][(lastCmd' \in RejectedServoLines /\ Dispatch(lastCmd')) =>
           /\ srv' = srv
           /\ servoLog' = <<>>
           /\ outbox' = <<>>
      ]_vars

\* SERVO_CAL:1700 has been dispatched with attached servos and a calibrated
\* neutral of 1450, which is still in place
C8_Witness ==
    /\ lastCmd = ArgLine(P_SERVO_CAL, 1700)
    /\ srv.panAttached
    /\ srv.neutralPan = 1450
    /\ srv.neutralTilt = 1450
    /\ brainConnected

\* C9: COLOR:<name> with a name that is not in the colour table leaves
\* currentColor as it was.
C9_UnknownColourKept ==
    [][\A l \in UnknownColorLines :
           (lastCmd' = l /\ Dispatch(l)) => dev'.currentColor = dev.currentColor
      ]_vars

\* the servo operations of one movement command on one axis
MoveOps(servo, attached, pulse, neutral, duration) ==
    IF attached
    THEN <<[servo |-> servo, op |-> "writeMicroseconds", val |-> pulse],
           [servo |-> "-", op |-> "delay", val |-> duration],
           [servo |-> servo, op |-> "writeMicroseconds", val |-> neutral]>>
    ELSE <<>>

\* C10: PAN_LEFT, PAN_RIGHT, TILT_UP and TILT_DOWN write neutral+speed
\* (LEFT/UP) or neutral-speed (RIGHT/DOWN) to an attached axis, hold it for
\* moveDuration and then write neutral; on a detached axis they write nothing;
\* they modify no other state.
C10_MovementBurst ==
    [][/\ (lastCmd' = S_PAN_LEFT /\ Dispatch(S_PAN_LEFT)) =>
              /\ servoLog' = MoveOps("pan", srv.panAttached,
                                     srv.neutralPan + srv.moveSpeed, srv.neutralPan,
                                     srv.moveDuration)
              /\ UNCHANGED <<dev, srv>>
       /\ (lastCmd' = S_PAN_RIGHT /\ Dispatch(S_PAN_RIGHT)) =>
              /\ servoLog' = MoveOps("pan", srv.panAttached,
                                     srv.neutralPan - srv.moveSpeed, srv.neutralPan,
                                     srv.moveDuration)
              /\ UNCHANGED <<dev, srv>>
       /\ (lastCmd' = S_TILT_UP /\ Dispatch(S_TILT_UP)) =>
              /\ servoLog' = MoveOps("tilt", srv.tiltAttached,
                                     srv.neutralTilt + srv.moveSpeed, srv.neutralTilt,
                                     srv.moveDuration)
              /\ UNCHANGED <<dev, srv>>
       /\ (lastCmd' = S_TILT_DOWN /\ Dispatch(S_TILT_DOWN)) =>
              /\ servoLog' = MoveOps("tilt", srv.tiltAttached,
                                     srv.neutralTilt - srv.moveSpeed, srv.neutralTilt,
                                     srv.moveDuration)
              /\ UNCHANGED <<dev, srv>>
      ]_vars

\* the datagrams of a heartbeat sent in state of chat mode c to peer x
BeatTo(x, c) == StatusTo(x, IF c THEN "HEARTBEAT:LISTENING" ELSE "HEARTBEAT:MUTE")

\* C11 as stated: no heartbeat is sent while connected is false; while
\* connected, a heartbeat leaves at least 500 ms after the previous one left
\* and one is sent in every pass of the control loop that begins 500 ms or
\* more after the previous one left; its content is HEARTBEAT:LISTENING if chatMode holds when it is
\* sent and HEARTBEAT:MUTE otherwise.
C11_HeartbeatEvery500 ==
    [][Heartbeat =>
           /\ outbox' # <<>> =>
                  /\ brainConnected
                  /\ outbox' = BeatTo(brainIP, dev.chatMode)
                  /\ clk.beatAt # -1 => clk.now - clk.beatAt >= STATUS_SEND_INTERVAL
           /\ (brainConnected
                 /\ clk.currentMillis - (IF clk.beatAt = -1 THEN 0 ELSE clk.beatAt)
                        >= STATUS_SEND_INTERVAL) => outbox' # <<>>
      ]_vars

\* C11 amended: the 500 ms are measured between the values of millis() taken
\* at the start of the passes that send: no heartbeat while connected is
\* false; while connected, a heartbeat is sent in exactly the passes whose
\* start lies at least 500 ms after the start of the pass that sent the
\* previous one (after power-on when there is none); the content is as stated.
C11_HeartbeatByPassStart ==
    [][Heartbeat =>
           /\ outbox' # <<>> =>
                  /\ brainConnected
                  /\ outbox' = BeatTo(brainIP, dev.chatMode)
                  /\ clk.beatStamp # -1 =>
                         clk.currentMillis - clk.beatStamp >= STATUS_SEND_INTERVAL
           /\ (brainConnected
                 /\ clk.currentMillis - (IF clk.beatStamp = -1 THEN 0 ELSE clk.beatStamp)
                        >= STATUS_SEND_INTERVAL) => outbox' # <<>>
      ]_vars

\* a second heartbeat has been sent, in chat mode, exactly 500 ms of pass
\* time after the first
C11_Witness ==
    /\ clk.pass = "top"
    /\ clk.beatStamp = 2 * STATUS_SEND_INTERVAL
    /\ clk.lastStatusSendTime = clk.beatStamp
    /\ dev.chatMode
    /\ outbox = BeatTo(brainIP, TRUE)

\* the reply of a command that answers at once
ReplyOf(l) ==
    CASE l = S_DISCOVER -> "LUMINA_BODY"
      [] l = S_PING -> "PONG"
      [] l = S_CHAT_START -> "STATUS:LISTENING"
      [] l = S_CHAT_STOP -> "STATUS:MUTE"

\* C12: a step of the control loop sends at most one datagram, to the known
\* peer; DISCOVER, PING, CHAT_START and CHAT_STOP typed on the console send
\* exactly one when a peer is known; DISCOVER, PING, CHAT_START, CHAT_STOP,
\* AUDIO_START and AUDIO_STOP typed on the console before any peer is known
\* send nothing and leave the peer session as it was.
C12_SendStatusOnce ==
    [][/\ Len(outbox') <= 1
       /\ outbox' # <<>> =>
              /\ brainConnected'
              /\ outbox'[1].to = brainIP'
              /\ outbox'[1].port = UDP_PORT
       /\ \A l \in ReplyLines :
              (lastCmd' = l /\ serialLine(l)) =>
                  /\ UNCHANGED peerVars
                  /\ ~brainConnected => outbox' = <<>>
                  /\ (brainConnected /\ l \notin {S_AUDIO_START, S_AUDIO_STOP}) =>
                         outbox' = StatusTo(brainIP, ReplyOf(l))
      ]_vars

\* CHAT_START has been typed on the console before any peer was known
C12_Witness ==
    /\ lastCmd = S_CHAT_START
    /\ dev.chatMode
    /\ ~brainConnected
    /\ brainIP = NoIP
    /\ outbox = <<>>

\* the lines of the peer specification that do not restart the device, each
\* with the command it carries
CarriedLines == {<<l, trim(l)>> : l \in PeerLines \ {S_WIFI_RESET}}

\* C13: a datagram on the control port from endpoint x makes the peer
\* session connected with address x, and the command it carries is dispatched
\* with that peer in place (its reply goes to x, AUDIO_START finds a peer); a
\* line from the console leaves the peer session as it was.  A command that
\* restarts the device is not counted.
C13_PeerOverwritten ==
    [][\A p \in CarriedLines :
           lastCmd' = p[2] =>
               /\ \A x \in Peers :
                      handleUDP(x, p[1]) =>
                          /\ brainConnected'
                          /\ brainIP' = x
                          /\ p[2] = S_CHAT_START =>
                                 outbox' = StatusTo(x, "STATUS:LISTENING")
                          /\ (p[2] = S_AUDIO_START /\ ~audioStreamingActive) =>
                                 audioStreamingActive'
               /\ serialLine(p[1]) => UNCHANGED peerVars
      ]_vars

\* AUDIO_START from endpoint 2 has started streaming towards endpoint 2
C13_Witness ==
    /\ lastCmd = S_AUDIO_START
    /\ loopPc = "start_spk"
    /\ audioStreamingActive
    /\ brainConnected
    /\ brainIP = 2

\* C14: once brainConnected is true, every step keeps it true and keeps a
\* peer address set, except a step that restarts the device.
C14_ConnectedStays ==
    [][brainConnected =>
           \/ brainConnected' /\ brainIP' \in Peers
           \/ RestartStep /\ brainIP' = NoIP
      ]_vars

\* a device that has streamed audio to its peer and stopped the session, and
\* is still connected
C14_Witness ==
    /\ brainConnected
    /\ brainIP \in Peers
    /\ lastCmd = S_AUDIO_STOP
    /\ loopPc = "idle"
    /\ ~audioStreamingActive
    /\ seq # <<0, 0>>

\* the lines whose handler is a single step of the control loop, each as the
\* verb that the chain of parseCommand selects and the trimmed line
OneStepCmds ==
    {<<Verb(trim(l)), trim(l)>> :
        l \in {S_DISCOVER, S_PING, S_RESET_POS, S_F_TALK_START, S_F_TALK_STOP,
               S_F_HAPPY, S_F_SLEEP, S_F_LISTENING, S_F_SAD, S_F_LOVE,
               S_CHAT_START, S_CHAT_STOP, S_MIC_TEST, S_AMP_STATUS,
               S_SERVO_ENABLE, S_SERVO_DISABLE, S_SERVO_STOP, S_STOP, S_TILT_UP,
               S_TILT_DOWN, S_SERVO_TEST, S_SERVO_STATUS, S_SERVO_HELP,
               PanTiltLine(10, 200), P_TEXT \o N_red, <<"L", "1", "2", "8">>,
               <<"B", "5", "0">>, L_RGB, L_COLOR_red, L_COLOR_notacolor,
               L_COLOR_dark_red, S_PAN_LEFT, Padded(S_DISCOVER)}
           \cup {ArgLine(p, v) : p \in {P_SERVO_CAL, P_SERVO_CAL_PAN,
                                         P_SERVO_CAL_TILT}, v \in {1450, 1700}}
           \cup {ArgLine(p, v) : p \in {P_SERVO_SPEED, P_SERVO_DURATION,
                                         P_SERVO_PAN, P_SERVO_TILT},
                                 v \in {60, 2000}}}

\* the handler state after the handler of command c, started from e
After(c, e) ==
    Handle(c[1], c[2], [e EXCEPT !.out = <<>>, !.log = <<>>], brainConnected, brainIP)

\* the device state in the handler state e
StateOf(e) ==
    [currentFace |-> e.dev.currentFace, chatMode |-> e.dev.chatMode,
     isTalking |-> e.dev.isTalking, isLocked |-> e.dev.isLocked,
     currentColor |-> e.dev.currentColor,
     currentBrightness |-> e.dev.currentBrightness,
     targetPan |-> e.dev.targetPan, targetTilt |-> e.dev.targetTilt,
     neutralPan |-> e.srv.neutralPan, neutralTilt |-> e.srv.neutralTilt,
     ampEn |-> e.amp, audioStreamingActive |-> audioStreamingActive]

\* C15: a line dispatched a second time, right after its handler has ended,
\* leaves the device state that the first dispatch left; for the handlers that
\* are one step of the control loop this holds from every reachable state.
C15_Idempotent ==
    /\ (twice.ph = 2 /\ loopPc = "idle") => DeviceState = twice.st
    /\ loopPc = "idle" =>
           \A c \in OneStepCmds :
               \E e \in {After(c, [dev |-> dev, srv |-> srv, amp |-> ampEn,
                                     out |-> <<>>, log |-> <<>>])} :
                   StateOf(After(c, e)) = StateOf(e)

\* AUDIO_STOP has ended a second time in a row, the first one having stopped
\* a session in chat mode
C15_Witness ==
    /\ twice.ph = 2
    /\ loopPc = "idle"
    /\ lastCmd = S_AUDIO_STOP
    /\ dev.chatMode
    /\ micTaskHandle = "NULL"
    /\ seq # <<0, 0>>

\* C16: a line that is not a command of the grammar changes no device state,
\* writes to no servo and sends no datagram.
C16_UnknownIgnored ==
    [][\A l \in UnknownLines :
           (lastCmd' = l /\ Dispatch(l)) =>
               /\ UNCHANGED <<dev, srv, ampEn, audioVars, taskVars, loopPc>>
               /\ outbox' = <<>>
               /\ servoLog' = <<>>
      ]_vars

\* C17: a step that uninstalls a peripheral driver, other than a restart of
\* the device, is taken when neither the capture task nor the playback task
\* exists, so that no task is alive on a peripheral once its driver is gone.
C17_TasksEndBeforeUninstall ==
    [][(((micDriver /\ ~micDriver') \/ (spkDriver /\ ~spkDriver')) /\ ~RestartStep) =>
           /\ micPc = "none" /\ spkPc = "none"
           /\ micPc' = "none" /\ spkPc' = "none"
      ]_vars

\* stopAudioStreaming is about to uninstall both drivers of a session whose
\* tasks were at work when AUDIO_STOP came
C17_Witness ==
    /\ loopPc = "stop_drv"
    /\ micDriver /\ spkDriver
    /\ micPc = "none" /\ spkPc = "none"
    /\ firstPacketReceived = FALSE
    /\ seq # <<0, 0>>
    /\ audioOut # NoPacket

\* C18: an audio task exists only while the driver it uses is installed: the
\* capture task with the capture driver, the playback task with the playback
\* driver.
C18_DriversBeforeTasks ==
    /\ micPc # "none" => micDriver
    /\ spkPc # "none" => spkDriver

\* C19: when stopAudioStreaming ends after an AUDIO_STOP that found the
\* pipeline active, audioStreamingActive is false, neither task exists, and
\* the amplifier is muted unless isTalking or chatMode holds, in which case
\* it stays as enabled as it was.
C19_StopRecomputesAmp ==
    [][(lastCmd = S_AUDIO_STOP /\ loopPc = "stop_drv" /\ loopPc' = "idle") =>
           /\ ~audioStreamingActive'
           /\ micPc' = "none" /\ spkPc' = "none"
           /\ ampEn' = IF dev.isTalking \/ dev.chatMode THEN ampEn ELSE FALSE
      ]_vars

\* C20: the pass of the playback loop that has read bytes for the first time
\* in its session enables the amplifier, whatever isTalking and chatMode are;
\* no other step makes a packet the first one.
C20_FirstPacketEnablesAmp ==
    [][/\ (spkPc = "play" /\ spkPc' = "run") =>
              /\ firstPacketReceived'
              /\ ampEn' = IF firstPacketReceived THEN ampEn ELSE TRUE
       /\ (~firstPacketReceived /\ firstPacketReceived') =>
              /\ spkPc = "play"
              /\ ampEn'
      ]_vars

\* the first packet of a session has enabled the amplifier of a device that
\* is neither talking nor in chat mode
C20_Witness ==
    /\ spkPc = "run"
    /\ audioStreamingActive
    /\ firstPacketReceived
    /\ ampEn
    /\ ~dev.isTalking
    /\ ~dev.chatMode
    /\ lastCmd = S_AUDIO_START

\* C21: a TONE line with positive frequency and duration (TONE alone plays
\* the defaults) starts a tone; the amplifier is enabled while the tone
\* plays; when the tone ends the amplifier is as it was when the line was
\* dispatched.
C21_ToneRestoresAmp ==
    [][/\ (lastCmd' \in PositiveTones /\ Dispatch(lastCmd')) => loopPc' = "tone"
       /\ loopPc' = "tone" => ampEn'
       /\ (loopPc = "tone" /\ loopPc' = "idle") => ampEn' = twice.st.ampEn
      ]_vars

\* line l is dispatched in a step in which its precondition does not hold:
\* AUDIO_START without a peer or with the pipeline active, AUDIO_STOP with the
\* pipeline inactive, a movement command whose axis is not attached
Violates(l) ==
    CASE l = S_AUDIO_START -> audioStreamingActive \/ ~brainConnected'
      [] l = S_AUDIO_STOP -> ~audioStreamingActive
      [] l \in {S_PAN_LEFT, S_PAN_RIGHT} -> ~srv.panAttached
      [] l \in {S_TILT_UP, S_TILT_DOWN} -> ~srv.tiltAttached
      [] OTHER -> FALSE

\* C22: a command dispatched while its precondition does not hold changes
\* no state, starts nothing, writes to no servo and sends no datagram.
C22_PreconditionNoop ==
    [][\A l \in MoveLines \cup {S_AUDIO_START, S_AUDIO_STOP} :
           (lastCmd' = l /\ Violates(l) /\ Dispatch(l)) =>
               /\ UNCHANGED <<dev, srv, ampEn, audioVars, taskVars, loopPc>>
               /\ outbox' = <<>>
               /\ servoLog' = <<>>
      ]_vars

\* the rest of the device is left alone and nothing is sent or written
ArgQuiet ==
    /\ UNCHANGED <<srv, ampEn, audioVars, taskVars, loopPc>>
    /\ outbox' = <<>>
    /\ servoLog' = <<>>

\* C23: an argument that is not a number is read as 0: P<x>T<y> stores the
\* targets (30, 30), L<x> and B<x> set the brightness to 0, SERVO_CAL:<x>,
\* SERVO_SPEED:<x> and SERVO_DURATION:<x> change nothing; no line is answered.
C23_NonNumericIsZero ==
    [][/\ (lastCmd' \in NonNumericPanTilt /\ Dispatch(lastCmd')) =>
              /\ dev' = [dev EXCEPT !.targetPan = 30, !.targetTilt = 30,
                                    !.isLocked = TRUE]
              /\ ArgQuiet
       /\ (lastCmd' \in NonNumericL \cup NonNumericB /\ Dispatch(lastCmd')) =>
              /\ dev' = [dev EXCEPT !.currentBrightness = 0]
              /\ ArgQuiet
       /\ (lastCmd' \in NonNumericServo /\ Dispatch(lastCmd')) =>
              /\ dev' = dev
              /\ ArgQuiet
      ]_vars

\* a non-numeric brightness arrived at a lit device whose servo settings were
\* changed from their defaults
C23_Witness ==
    /\ lastCmd \in NonNumericL \cup NonNumericB
    /\ dev.currentBrightness = 0
    /\ dev.targetPan = 90 /\ dev.targetTilt = 45
    /\ srv.moveSpeed = 100

\* C24: after a P<a>T<b> line, unless another line arrives, the current pan
\* and tilt angles come to equal the stored targets.
C24_ReachesTarget ==
    \A l \in {L_P90T45, L_P30T150} :
        (lastCmd = l) ~> \/ lastCmd # l
                         \/ /\ dev.currentPan = dev.targetPan
                            /\ dev.currentTilt = dev.targetTilt

\* C25: L<n> sets the brightness to n clamped into [0, 255]; B<p> sets it to
\* the clamped percentage mapped linearly onto [0, 255]: 0 for p <= 0, 255
\* for p >= 100, within one step of 255 * p / 100 between, never less after
\* a larger percentage; the brightness is in [0, 255] after either.
C25_BrightnessRange ==
    [][/\ \A p \in LLines : (lastCmd' = p[1] /\ Dispatch(p[1])) =>
              dev'.currentBrightness = Nearest(p[2], 0, 255)
       /\ \A p \in BLines : (lastCmd' = p[1] /\ Dispatch(p[1])) =>
              /\ dev'.currentBrightness \in 0..255
              /\ p[2] <= 0 => dev'.currentBrightness = 0
              /\ p[2] >= 100 => dev'.currentBrightness = 255
              /\ p[2] \in 0..100 =>
                     /\ dev'.currentBrightness * 100 <= 255 * p[2]
                     /\ dev'.currentBrightness * 100 > 255 * p[2] - 100
              /\ \A q \in BLines :
                     (lastCmd = q[1] /\ q[2] <= p[2]) =>
                         dev.currentBrightness <= dev'.currentBrightness
       /\ (lastCmd' \in {L_LHuge, L_BHuge} /\ Dispatch(lastCmd')) =>
              dev'.currentBrightness = 255
       /\ (lastCmd' \in {L_LHugeNeg, L_BHugeNeg} /\ Dispatch(lastCmd')) =>
              dev'.currentBrightness = 0
      ]_vars

\* B50 was dispatched and the brightness is half of 255, rounded down
C25_Witness ==
    /\ lastCmd = ArgLine(<<"B">>, 50)
    /\ dev.currentBrightness = 127

\* the angles written to a servo by the last line, in the order written
Written(log, servo) ==
    LET w == SelectSeq(log, LAMBDA o : o.servo = servo /\ o.op = "write")
    IN [i \in 1..Len(w) |-> w[i].val]

\* C26: with the axis attached, SERVO_PAN:<a> for a from 0 to 180 moves the
\* pan servo to a, and SERVO_TILT:<a> for a from 30 to 150 moves the tilt
\* servo to 180 - a: the last angle written and the tracked angle are that.
C26_AcceptsDocumentedRange ==
    [][/\ \A p \in PanLines :
              (lastCmd' = p[1] /\ p[2] \in 0..180 /\ srv.panAttached /\ Dispatch(p[1])) =>
                  /\ srv'.currentPanAngle = p[2]
                  /\ Written(servoLog', "pan") # <<>>
                  /\ Written(servoLog', "pan")[Len(Written(servoLog', "pan"))] = p[2]
       /\ \A p \in TiltLines :
              (lastCmd' = p[1] /\ p[2] \in 30..150 /\ srv.tiltAttached /\ Dispatch(p[1])) =>
                  /\ srv'.currentTiltAngle = 180 - p[2]
                  /\ Written(servoLog', "tilt") # <<>>
                  /\ Written(servoLog', "tilt")[Len(Written(servoLog', "tilt"))] = 180 - p[2]
      ]_vars

\* the writes w of a move from the tracked angle from to the angle to: the
\* first repeats from, each later one is one degree nearer to, the last is to
OneDegreeMove(w, from, to) ==
    /\ w # <<>>
    /\ w[1] = from
    /\ w[Len(w)] = to
    /\ \A i \in 1..(Len(w) - 1) :
           w[i + 1] = IF from < to THEN w[i] + 1 ELSE w[i] - 1
    /\ \A i \in 1..Len(w) : w[i] \in min(from, to)..max(from, to)

\* C30: a SERVO_PAN:<a> or SERVO_TILT:<a> that moves its axis writes, one
\* angle per tick, angles that differ by exactly one degree, each nearer the
\* target, none beyond it, and leaves the tracked angle equal to the target,
\* whatever the tracked angle at the start, the target itself included.
C30_OneDegreePerTick ==
    [][/\ \A p \in PanLines :
              (lastCmd' = p[1] /\ p[2] \in 30..150 /\ srv.panAttached /\ Dispatch(p[1])) =>
                  \E w \in {Written(servoLog', "pan")} :
                      /\ OneDegreeMove(w, srv.currentPanAngle, p[2])
                      /\ srv'.currentPanAngle = p[2]
                      /\ Len(servoLog') = 2 * Len(w)
       /\ \A p \in TiltLines :
              (lastCmd' = p[1] /\ p[2] \in 30..150 /\ srv.tiltAttached /\ Dispatch(p[1])) =>
                  \E w \in {Written(servoLog', "tilt")} :
                      /\ OneDegreeMove(w, srv.currentTiltAngle, 180 - p[2])
                      /\ srv'.currentTiltAngle = 180 - p[2]
                      /\ Len(servoLog') = 2 * Len(w)
      ]_vars

\* SERVO_TILT:150 has swept the tilt servo down from 150 to 30
C30_Witness ==
    /\ lastCmd = ArgLine(P_SERVO_TILT, 150)
    /\ Len(Written(servoLog, "tilt")) = 121
    /\ srv.currentTiltAngle = 30

\* SERVO_PAN:90 arrived with the pan servo already at 90
C30_WitnessSame ==
    /\ lastCmd = ArgLine(P_SERVO_PAN, 90)
    /\ Written(servoLog, "pan") = <<90>>
    /\ srv.currentPanAngle = 90

\* C27: audioStreamingActive is true only while the capture task and the
\* playback task both exist and the capture and playback drivers are both
\* installed.
C27_ActiveMeansRunning ==
    audioStreamingActive =>
        /\ micPc # "none" /\ spkPc # "none"
        /\ micDriver /\ spkDriver

\* C28: F_TALK_STOP clears isTalking and shows the happy face; with chatMode
\* false it mutes the amplifier, with chatMode true it leaves the amplifier
\* line as it was.
C28_TalkStop ==
    [][(lastCmd' = S_F_TALK_STOP /\ Dispatch(S_F_TALK_STOP)) =>
           /\ dev' = [dev EXCEPT !.isTalking = FALSE, !.currentFace = "FACE_HAPPY"]
           /\ ~dev.chatMode => ~ampEn'
           /\ dev.chatMode => ampEn' = ampEn
      ]_vars

\* F_TALK_STOP arrived in chat mode and the amplifier is still enabled
C28_Witness ==
    /\ lastCmd = S_F_TALK_STOP
    /\ dev.chatMode
    /\ ampEn
    /\ ~dev.isTalking
    /\ dev.currentFace = "FACE_HAPPY"

\* a pass of the loop in which the talk animation wrote the tilt servo
AnimationStep == clk.pass = "anim" /\ clk'.pass = "beat" /\ servoLog' # <<>>

\* C29: the talk animation runs only while the face shown is the talking
\* face; every angle it writes to the tilt servo lies in [45, 135]; it
\* changes neither the tilt target nor the current tilt.
C29_AnimationOnlyTalking ==
    [][AnimationStep =>
           /\ dev.currentFace = "FACE_TALKING"
           /\ \A i \in 1..Len(servoLog') :
                  /\ servoLog'[i].servo = "tilt"
                  /\ servoLog'[i].val \in 45..135
           /\ dev'.targetTilt = dev.targetTilt
           /\ dev'.currentTilt = dev.currentTilt
      ]_vars

\* C31: whatever the size of an audio-in datagram, the bytes copied into
\* speakerBuffer are the first min(size, 256) of it, never more than the
\* buffer holds, and the bytes given to i2s_write are no more than those.
C31_PlaybackBounded ==
    /\ spkIo.bytesRead <= SpeakerBufferBytes
    /\ spkIo.bytesRead = min(spkIo.packetSize, 2 * I2S_BUFFER_SIZE)
    /\ spkIo.bytes_written <= SpeakerBufferBytes
    /\ spkIo.bytes_written \in {0, spkIo.bytesRead}

\* a datagram larger than the buffer has been played
C31_Witness ==
    /\ spkIo.packetSize > SpeakerBufferBytes
    /\ spkIo.bytes_written = SpeakerBufferBytes
    /\ spkPc = "run"

\* C32: a /stream request that arrived while a client was streaming is
\* answered 503 when the server takes it up, and the step leaves
\* stream_client_connected and the streaming client as they were.
C32_BusyAnswered503 ==
    [][\A r \in cam.pending :
           (/\ r.uri = "/stream" /\ r.busy
            /\ r \notin cam'.pending
            /\ cam'.event \in {"busy", "stream"}) =>
               /\ cam'.answer = <<r.client, "503">>
               /\ cam'.stream_client_connected = cam.stream_client_connected
               /\ cam'.streamer = cam.streamer
      ]_vars

\* C33: when a stream has delivered no frame for STREAM_TIMEOUT_MS, the
\* stream ends: stream_client_connected becomes false and the web server
\* task is back waiting for a request.
C33_StreamTimesOut ==
    (cam.stream_client_connected /\ cam.now - cam.delivered >= STREAM_TIMEOUT_MS)
        ~> (~cam.stream_client_connected /\ cam.httpd = "idle")


\* a step of loop() that restarts the camera unit
LoopRestart ==
    /\ cam'.event = "restart"
    /\ cam' # cam

\* C34: loop() restarts the camera unit exactly on the WIFI_MAX_FAILS-th
\* consecutive failed reconnect attempt: a restart happens with WiFi down and
\* WIFI_MAX_FAILS - 1 failures already counted, no run of failures reaches
\* WIFI_MAX_FAILS without a restart, wifi_fail_count counts the current run of
\* failures and is 0 after a pass that found WiFi connected or reconnected it,
\* and it never exceeds WIFI_MAX_FAILS
C34_RestartAtSixFails ==
    [][/\ LoopRestart => (~cam.wifi /\ cam.failed + 1 = WIFI_MAX_FAILS)
       /\ cam'.failed < WIFI_MAX_FAILS
       /\ cam'.wifi_fail_count = cam'.failed
       /\ cam'.wifi_fail_count <= WIFI_MAX_FAILS
       /\ (cam'.event \in {"connected", "reconnected"} /\ cam'.event # cam.event)
              => (cam'.wifi /\ cam'.wifi_fail_count = 0)]_vars

\* the unit has just restarted after its sixth failed reconnect in a row
C34_Witness ==
    /\ cam.event = "restart"
    /\ cam.wifi_fail_count = 0


\* C35: each audio task is ended once per session: stopAudioStreaming is
\* never at vTaskDelete(handle) for a task that has already left its loop and
\* deleted itself, and once both deletions are done both handles are NULL and
\* neither task exists
C35_TerminatedOnce ==
    /\ (loopPc = "stop_mic" /\ micTaskHandle # "NULL") => micPc # "none"
    /\ (loopPc = "stop_spk" /\ speakerTaskHandle # "NULL") => spkPc # "none"
    /\ loopPc = "stop_drv" =>
          /\ micTaskHandle = "NULL" /\ speakerTaskHandle = "NULL"
          /\ micPc = "none" /\ spkPc = "none"


\* C36: between two restarts no two transmitted audio-out packets carry the
\* same sequence number, whatever the number of AUDIO_START / AUDIO_STOP
\* cycles and wherever in its loop the capture task is when it is deleted
C36_NoSeqReuse == ~txLog.reused


\* C37: whenever the face is FACE_TALKING, isTalking is true; and every step
\* that clears isTalking leaves a face other than FACE_TALKING
C37_TalkingFaceMeansTalking ==
    /\ [](dev.currentFace = "FACE_TALKING" => dev.isTalking)
    /\ [][(dev.isTalking /\ ~dev'.isTalking) =>
              dev'.currentFace # "FACE_TALKING"]_vars

\* F_TALK_STOP, F_SLEEP or CHAT_STOP has just ended a talk: the face was
\* FACE_TALKING one command ago and is another one now
C37_Witness ==
    /\ prevCmd = S_F_TALK_START
    /\ lastCmd \in {S_F_TALK_STOP, S_F_SLEEP, S_CHAT_STOP}
    /\ ~dev.isTalking
    /\ dev.currentFace # "FACE_TALKING"


\* C38: a datagram from endpoint x makes x the peer and its replies go to x;
\* nothing but a datagram changes the peer while the device runs; every audio-out
\* packet, status reply and heartbeat is sent to the peer of the moment, which
\* is therefore the sender of the latest datagram, and only with a peer known
C38_PacketsFollowSender ==
    [][/\ \A l \in RouteLines :
              (lastCmd' = l /\ clk.pass = "udp" /\ clk'.pass = "serial") =>
                  \A x \in Peers :
                      handleUDP(x, l) =>
                          /\ brainConnected' /\ brainIP' = x
                          /\ \A i \in DOMAIN outbox' : outbox'[i].to = x
       /\ brainIP' # brainIP =>
              \E l \in RouteLines : lastCmd' = l /\ handleUDP(brainIP', l)
       /\ (audioOut' # audioOut /\ audioOut' # NoPacket) =>
              /\ brainConnected
              /\ audioOut'.to = brainIP
              /\ brainIP \in Peers
       /\ outbox' # <<>> =>
              /\ brainConnected'
              /\ \A i \in DOMAIN outbox' : outbox'[i].to = brainIP' /\ brainIP' \in Peers
      ]_vars

\* streaming was started by endpoint 1; endpoint 2 has sent a command since,
\* and the packet that followed went to endpoint 2
C38_Witness ==
    /\ audioStreamingActive
    /\ brainIP = 2
    /\ audioOut.to = 2
    /\ audioOut.seq = <<0, 1>>
    /\ lastCmd = S_PING


\* C39: the neutral pulse widths stay in 1400..1600, moveSpeed in 10..200 and
\* moveDuration in 50..1000, and every pulse width that a command writes with
\* writeMicroseconds lies in 1200..1800
C39_PulseWidthsBounded ==
    /\ srv.neutralPan \in 1400..1600
    /\ srv.neutralTilt \in 1400..1600
    /\ srv.moveSpeed \in 10..200
    /\ srv.moveDuration \in 50..1000
    /\ \A i \in DOMAIN servoLog :
           servoLog[i].op = "writeMicroseconds" => servoLog[i].val \in 1200..1800

\* a burst at the lower end of the range: neutral 1400, speed 200, pulse 1200
C39_Witness ==
    /\ srv.neutralTilt = 1400
    /\ srv.moveSpeed = 200
    /\ lastCmd = S_TILT_DOWN
    /\ Len(servoLog) > 0
    /\ servoLog[1] = ServoOp("tilt", "writeMicroseconds", 1200)


\* C40: within one session the playback task raises the amplifier enable
\* line only for its first packet: a step of the task that plays a packet
\* changes the line only when no packet has been played yet, and then to
\* high; a later packet is written to the output whatever the line is and
\* leaves the line as the commands have set it; and the first-packet flag is
\* not cleared while the session is active
C40_AmpEnabledOncePerSession ==
    [][/\ (spkPc = "play" /\ spkPc' = "run") =>
              /\ ampEn' # ampEn => (~firstPacketReceived /\ ampEn')
              /\ firstPacketReceived => ampEn' = ampEn
              /\ firstPacketReceived'
              /\ spkIo.followed =>
                     (spkIo'.bytes_written = spkIo.bytesRead /\ spkIo.bytesRead > 0)
       /\ (firstPacketReceived /\ ~firstPacketReceived') => ~audioStreamingActive'
      ]_vars

\* F_TALK_STOP has muted the amplifier during a session whose first packet
\* had been played; a packet has been written since and the line is still low
C40_Witness ==
    /\ audioStreamingActive
    /\ firstPacketReceived
    /\ ~ampEn
    /\ lastCmd = S_F_TALK_STOP
    /\ spkPc = "run"
    /\ spkIo.bytes_written > 0
=============================================================================
